---- MODULE Spec2Model ----
(***************************************************************************)
(* Client-side session lifecycle of the ai-knowledge-agent front end:      *)
(* the token store (lib/auth-api.ts), the session query and the auth       *)
(* mutations (hooks/use-auth), and the route guard (middleware.ts).        *)
(*                                                                         *)
(* Time is kept in milliseconds, as Date.now() gives it.  The clock        *)
(* advances in half seconds, so that both the instants that fall exactly   *)
(* on a second and the instants strictly between two seconds occur.        *)
(***************************************************************************)
EXTENDS Integers, Sequences, FiniteSets, Bags, TLC

\* ------------------------------------------------------------------ bounds

\* The clock runs from 0 to MaxTicks half seconds.
MaxTicks == 3
\* The largest expiry claim (seconds) of a token.
MaxExp == 2
\* The longest lifetime (seconds) the identity service gives a token.
MaxTtl == 1
\* Requests of one tab in flight at once.
MaxInflight == 2
\* Storage notifications awaiting delivery to the tab.
MaxEvents == 1
\* The longest password and the longest name typed into a form.
MaxPwLen == 8
MaxNameLen == 2
\* Calls of login made by the tab while earlier ones may be in flight.
MaxLogins == 2
\* Code exchanges started by UserProfile for one arrival on the dashboard.
MaxExchanges == 2
\* Days the token store is followed for.
MaxDays == 8
\* Tabs of the origin open at once, and the logouts the storage listener of
\* one tab starts.
MaxTabs == 3
MaxRuns == 2

\* ------------------------------------------------------- program constants

\* Date.now() / 1000: milliseconds per second.
MsPerSec == 1000

\* setCookie("auth_token", token, 7): the days the cookie is kept.
RetentionDays == 7

TickMs == MsPerSec \div 2

Times == {k * TickMs : k \in 0..MaxTicks}

Users == {"u1", "u2"}

\* ------------------------------------------------------------------ tokens

(***************************************************************************)
(* A token string, by what the code reads of it: the number of             *)
(* dot-separated segments, whether the middle segment is valid base64,     *)
(* what its decoded text is as JSON, and, for a JSON object, the claims    *)
(* exp (NoExp: the claim is missing) and id.                               *)
(***************************************************************************)
NoExp == 0 - 1

Token(n, b, j, e, u) ==
  [segments |-> n, base64 |-> b, json |-> j, exp |-> e, id |-> u]

\* null / undefined / the empty string: no token.
NoToken == Token(0, FALSE, "invalid", NoExp, "none")

\* Tokens with claims {id, email, exp}, as the identity service signs them.
ClaimTokens == {Token(3, TRUE, "object", e, u) : e \in 0..MaxExp, u \in Users}

\* Strings that are not such tokens.
OddTokens ==
  { Token(1, FALSE, "invalid", NoExp, "none"),   \* "garbage": no dot
    Token(3, FALSE, "invalid", NoExp, "none"),   \* middle segment not base64
    Token(3, TRUE, "invalid", NoExp, "none"),    \* base64 of text that is not JSON
    Token(2, TRUE, "invalid", NoExp, "none"),
    Token(3, TRUE, "null", NoExp, "none"),       \* base64 of "null"
    Token(3, TRUE, "number", NoExp, "none"),     \* base64 of "5"
    Token(3, TRUE, "object", NoExp, "u1"),       \* claims without exp
    Token(2, TRUE, "object", 1, "u1") }          \* "h.p": no signature segment

AllTokens == ClaimTokens \cup OddTokens

\* JSON.parse(atob(token.split(".")[1])): "throws", or the kind of value parsed.
\* split gives undefined for a missing segment, and atob("undefined") throws.
parsePayload(token) ==
  IF token.segments < 2 THEN "throws"
  ELSE IF ~token.base64 THEN "throws"
  ELSE IF token.json = "invalid" THEN "throws"
  ELSE token.json

\* payload.exp: "throws" on null, undefined (NoExp) where there is no such claim.
payloadExp(token) ==
  CASE parsePayload(token) = "throws" -> "throws"
    [] parsePayload(token) = "null" -> "throws"
    [] parsePayload(token) = "number" -> "undefined"
    [] OTHER -> IF token.exp = NoExp THEN "undefined" ELSE "number"

\* The body of the try block of tokenManager.isTokenExpired:
\* payload.exp ? payload.exp < now : false, with now = Date.now() / 1000.
isTokenExpiredTry(token, nowMs) ==
  CASE payloadExp(token) = "throws" -> "throws"
    [] payloadExp(token) = "undefined" -> "false"
    [] OTHER ->
       IF token.exp # 0
       THEN (IF token.exp * MsPerSec < nowMs THEN "true" ELSE "false")
       ELSE "false"

isTokenExpiredLenient(token, nowMs) ==
  IF isTokenExpiredTry(token, nowMs) = "throws" THEN "false"
  ELSE isTokenExpiredTry(token, nowMs)

\* tokenManager.isTokenExpired: the try block, and catch { return true }.
isTokenExpiredResult(token, nowMs) ==
  IF isTokenExpiredTry(token, nowMs) = "throws" THEN "true"
  ELSE isTokenExpiredTry(token, nowMs)

isTokenExpired(token, nowMs) == isTokenExpiredResult(token, nowMs) = "true"

\* tokenManager.getTokenPayload: the claims, or null.
getTokenPayload(token) ==
  IF parsePayload(token) = "throws" THEN "none" ELSE token.id

\* ------------------------------------------------------------- route guard

\* A request path is one of the prefixes the guard tests for, or "/", followed
\* by rest: "" (the path itself), "/sub" (a sub-path) or "x" (more letters).
Bases == {"/", "/dashboard", "/profile", "/auth/signin", "/auth/signup", "/auth/callback"}

Rests == {"", "/sub", "x"}

Path(b, r) == [base |-> b, rest |-> r]

Paths == {Path(b, r) : b \in Bases, r \in Rests}

NoPath == Path("none", "")

protectedRoutes == {"/dashboard", "/profile"}

authRoutes == {"/auth/signin", "/auth/signup"}

\* pathname.startsWith(route), for the routes of Bases: none is a prefix of another.
startsWith(path, route) == path.base = route

\* A request: its path, whether the query string has a `code` parameter, the
\* auth_token cookie, and the Authorization header after replace("Bearer ", "").
Request(p, c, k, h) == [path |-> p, code |-> c, cookie |-> k, header |-> h]

\* NextResponse.next() and NextResponse.redirect(url).
PassThrough == [kind |-> "next", to |-> NoPath, callbackUrl |-> NoPath]

Redirect(p, cb) == [kind |-> "redirect", to |-> p, callbackUrl |-> cb]

NoResponse == [kind |-> "none", to |-> NoPath, callbackUrl |-> NoPath]

isValidTokenNoExpiryCheck(token, nowMs) ==
  token # NoToken /\ payloadExp(token) = "number" /\ token.exp # 0

\* middleware.ts isValidToken: payload.exp && payload.exp > currentTime, with
\* currentTime = Math.floor(Date.now() / 1000); false for no token and on a throw.
isValidToken(token, nowMs) ==
  IF token = NoToken THEN FALSE
  ELSE IF payloadExp(token) # "number" THEN FALSE
  ELSE token.exp # 0 /\ token.exp > (nowMs \div MsPerSec)

\* request.cookies.get("auth_token")?.value || request.headers.get("authorization")?...
requestToken(req) == IF req.cookie # NoToken THEN req.cookie ELSE req.header

middlewareDropsCallbackUrl(req, nowMs) ==
  IF /\ \E route \in protectedRoutes : startsWith(req.path, route)
     /\ ~isValidToken(requestToken(req), nowMs)
     /\ ~req.code
  THEN Redirect(Path("/auth/signin", ""), NoPath)
  ELSE IF /\ \E route \in authRoutes : startsWith(req.path, route)
          /\ isValidToken(requestToken(req), nowMs)
  THEN Redirect(Path("/dashboard", ""), NoPath)
  ELSE PassThrough

middlewareCallbackGuarded(req, nowMs) ==
  IF /\ \E route \in protectedRoutes : startsWith(req.path, route)
     /\ ~isValidToken(requestToken(req), nowMs)
     /\ ~req.code
  THEN Redirect(Path("/auth/signin", ""), req.path)
  ELSE IF /\ \E route \in authRoutes \cup {"/auth/callback"} : startsWith(req.path, route)
          /\ isValidToken(requestToken(req), nowMs)
  THEN Redirect(Path("/dashboard", ""), NoPath)
  ELSE PassThrough

middlewareNoCarveOut(req, nowMs) ==
  IF /\ \E route \in protectedRoutes : startsWith(req.path, route)
     /\ ~isValidToken(requestToken(req), nowMs)
  THEN Redirect(Path("/auth/signin", ""), req.path)
  ELSE IF /\ \E route \in authRoutes : startsWith(req.path, route)
          /\ isValidToken(requestToken(req), nowMs)
  THEN Redirect(Path("/dashboard", ""), NoPath)
  ELSE PassThrough

middlewareTokenPresence(req, nowMs) ==
  IF /\ \E route \in protectedRoutes : startsWith(req.path, route)
     /\ ~isValidToken(requestToken(req), nowMs)
     /\ ~req.code
  THEN Redirect(Path("/auth/signin", ""), req.path)
  ELSE IF /\ \E route \in authRoutes : startsWith(req.path, route)
          /\ requestToken(req) # NoToken
  THEN Redirect(Path("/dashboard", ""), NoPath)
  ELSE PassThrough

\* middleware.ts middleware.
middleware(req, nowMs) ==
  IF /\ \E route \in protectedRoutes : startsWith(req.path, route)
     /\ ~isValidToken(requestToken(req), nowMs)
     /\ ~req.code
  THEN Redirect(Path("/auth/signin", ""), req.path)
  ELSE IF /\ \E route \in authRoutes : startsWith(req.path, route)
          /\ isValidToken(requestToken(req), nowMs)
  THEN Redirect(Path("/dashboard", ""), NoPath)
  ELSE IF startsWith(req.path, "/auth/callback")
  THEN PassThrough
  ELSE PassThrough

\* ------------------------------------------------------------------- state

VARIABLES
  now,            \* Date.now(), in milliseconds
  localStorage,   \* localStorage["auth_token"], shared by the tabs of the origin
  cookie,         \* the auth_token cookie, shared as well
  data,           \* the query cache entry ['auth', 'user'] of this tab
  invalidated,    \* its isInvalidated flag
  enabled,        \* the `enabled` option of the useAuth observer, as last rendered
  attached,       \* whether the observer has been given the current cache entry
  mounted,        \* whether the component that calls useAuth has rendered
  fetching,       \* the session fetch: "idle", "fetching" or "retry"
  failureCount,   \* failed attempts of the session fetch under way
  inflight,       \* the bag of requests of this tab awaiting their response
  storageEvents,  \* storage notifications not yet delivered to this tab
  last,           \* what ran last, and the outcome it handed its caller
  pToken,         \* input of isTokenExpired
  pExpired,       \* its result
  pReq,           \* input of middleware
  pResp,          \* its result
  handler,        \* the success handler under way: its response and position
  page,           \* the page of the tab: location.protocol, and what its browser allows
  call,           \* the last call of the token store on its own, and its result
  events,         \* the storage events queued for this tab, oldest first
  delivered,      \* the storage event its listener was last called with
  formData,       \* the fields of the login or register form, as typed
  formErrors,     \* the fields the last validateForm() found in error
  invoked,        \* the calls of login made so far
  arrived,        \* the login responses handled so far, in order of arrival
  profile,        \* UserProfile on the dashboard: the code of the URL, its state, its exchanges
  nav,            \* the last navigation of the router, and the route guard's answer to it
  sinceLogout,    \* whether a logout has completed, and the logins in flight sent before and after it
  verdicts,       \* a token, and what the token store and the route guard say of it
  wire,           \* the last request sent through apiClient: its url and its Authorization header
  day,            \* the days since the token store was first used
  cookieExpires,  \* the day the expires attribute of the cookie falls on
  hop,            \* the request for the target of a redirect of the guard, and the guard's response to it
  tabs,           \* each tab of the origin: its listener, its cached user, its storage events, its logouts
  clicked,        \* whether the user has logged out in one of the tabs
  callback,       \* the OAuth callback page: the parameters of its URL, its status, its timer, its exchanges
  route,          \* what ProtectedRoute rendered last, and the redirect of its effect
  isPending       \* for each mutation of useAuth, whether its observer's current call is pending

tabVars ==
  <<localStorage, cookie, data, invalidated, enabled, attached, mounted,
    fetching, failureCount, inflight, storageEvents, last>>

probeVars == <<pToken, pExpired, pReq, pResp>>

stepVars == <<handler>>

storeVars == <<page, call>>

crossVars == <<events, delivered>>

formVars == <<formData, formErrors>>

raceVars == <<invoked, arrived>>

profileVars == <<profile, nav>>

sessionVars == <<sinceLogout>>

agreeVars == <<verdicts>>

wireVars == <<wire>>

retentionVars == <<day, cookieExpires>>

hopVars == <<hop>>

cascadeVars == <<tabs, clicked>>

callbackVars == <<callback>>

routeVars == <<route, isPending>>

auxVars == <<stepVars, storeVars, crossVars, formVars, raceVars, profileVars, sessionVars, agreeVars, wireVars, retentionVars, hopVars, cascadeVars, callbackVars, routeVars>>

vars == <<now, tabVars, probeVars, auxVars>>

\* ------------------------------------------- the functions on their inputs

NoRequest == Request(NoPath, FALSE, NoToken, NoToken)

HeaderTokens ==
  {NoToken, Token(1, FALSE, "invalid", NoExp, "none")}
    \cup {Token(3, TRUE, "object", e, "u2") : e \in 1..MaxExp}

Requests ==
  {Request(p, c, k, h) :
     p \in Paths, c \in BOOLEAN, k \in {NoToken} \cup AllTokens, h \in HeaderTokens}

ApplyIsTokenExpired ==
  /\ pToken # NoToken
  /\ pExpired = "none"
  /\ pExpired' = isTokenExpiredResult(pToken, now)
  /\ UNCHANGED <<now, tabVars, pToken, pReq, pResp, auxVars>>

ApplyMiddleware ==
  /\ pReq # NoRequest
  /\ pResp = NoResponse
  /\ pResp' = middleware(pReq, now)
  /\ UNCHANGED <<now, tabVars, pToken, pExpired, pReq, auxVars>>

\* ------------------------------------------------------- the tab's objects

\* The value of the cache entry: undefined (no entry), null, or an identity,
\* which is the one the identity service sent ("server") or the minimal one
\* built from the token's claims ("token").
NoData == [kind |-> "undefined", id |-> "none", source |-> "none"]

Null == [kind |-> "null", id |-> "none", source |-> "none"]

Identity(u, src) == [kind |-> "user", id |-> u, source |-> src]

isIdentity(v) == v.kind = "user"

\* A request awaiting its response: the endpoint's operation, for me the id of
\* the bearer token sent with it, and whether the session fetch that sent it
\* still waits for it.
Req(op, u, l) == [op |-> op, id |-> u, live |-> l]

AuthOps == {"login", "register", "google"}

Outcomes == {"ok", "unauthorized", "error"}

\* The state the handlers act on, as one record.
Cur ==
  [ls |-> localStorage, cookie |-> cookie, data |-> data,
   invalidated |-> invalidated, enabled |-> enabled, attached |-> attached,
   mounted |-> mounted, fetching |-> fetching, failureCount |-> failureCount, inflight |-> inflight,
   dispatched |-> FALSE, sent |-> "none", bearer |-> NoToken, result |-> "none",
   page |-> page]

Commit(s, l) ==
  /\ localStorage' = s.ls
  /\ cookie' = s.cookie
  /\ data' = s.data
  /\ invalidated' = s.invalidated
  /\ enabled' = s.enabled
  /\ attached' = s.attached
  /\ mounted' = s.mounted
  /\ fetching' = s.fetching
  /\ failureCount' = s.failureCount
  /\ inflight' = s.inflight
  /\ last' = l

\* The record of what ran last: the handler, the response it handled ("none"
\* when it handled none), whether auth:logout was dispatched in it, the error
\* the client rejected its caller with ("none": resolved), the request it sent
\* ("none" when it sent none), the bearer header of that request, and how the
\* query function ended in it ("none" when it did not: "null", "identity" for
\* the response's, "token-identity" for the one built from the token, "throws").
Did(act, outcome, s, err) ==
  [act |-> act, outcome |-> outcome, dispatched |-> s.dispatched,
   error |-> err, sent |-> s.sent, bearer |-> s.bearer, result |-> s.result]

\* No handler of the tab has run since the tab loaded, the clock advanced or
\* another tab acted.
NoLast == [act |-> "none", outcome |-> "none", dispatched |-> FALSE,
           error |-> "none", sent |-> "none", bearer |-> NoToken, result |-> "none"]

\* ------------------------------------------------------------ token store

\* The page a tab shows: location.protocol, and whether its browser lets the
\* page store a cookie that has the Secure attribute. It does on https; over
\* http it does not, except that some browsers do on localhost.
Page(protocol, secureAllowed) == [protocol |-> protocol, secureAllowed |-> secureAllowed]

SecurePage == Page("https:", TRUE)

Pages == {SecurePage, Page("http:", TRUE), Page("http:", FALSE)}

\* The string assigned to document.cookie: the value, whether its expires
\* attribute lies in the future, and its other attributes by name, with the
\* text given to the Secure attribute.
CookieString(value, expires, attrs, secureText) ==
  [value |-> value, expires |-> expires, attrs |-> attrs, secureText |-> secureText]

\* The assignment document.cookie = str: the browser takes an attribute named
\* Secure as the Secure attribute whatever text follows it, drops a Secure
\* cookie of a page it does not allow one, deletes the cookie for an expires
\* in the past and stores the value otherwise.
documentCookieSet(jar, str, pg) ==
  IF "Secure" \in str.attrs /\ ~pg.secureAllowed THEN jar
  ELSE IF str.expires = "past" THEN NoToken
  ELSE str.value

\* setCookie("auth_token", value, 7).
setCookie(jar, value, pg) ==
  documentCookieSet(jar,
    CookieString(value, "future", {"path", "SameSite", "Secure"},
                 IF pg.protocol = "https:" THEN "true" ELSE "false"),
    pg)

\* getCookie("auth_token"): the value listed under the name, or null.
getCookie(jar) == jar

\* removeCookie("auth_token").
removeCookie(jar, pg) ==
  documentCookieSet(jar, CookieString(NoToken, "past", {"path"}, "none"), pg)

\* tokenManager.getToken: localStorage first, then the cookie.
getToken(s) == IF s.ls # NoToken THEN s.ls ELSE getCookie(s.cookie)

\* tokenManager.setToken: both mediums.
setToken(s, token) ==
  [s EXCEPT !.ls = token, !.cookie = setCookie(@, token, s.page)]

removeTokenNot(s) == s

\* tokenManager.removeToken: both mediums.
removeToken(s) ==
  [s EXCEPT !.ls = NoToken, !.cookie = removeCookie(@, s.page)]

\* isAuthenticated of lib/auth-api.ts.
checkIsAuthenticated(s, nowMs) ==
  getToken(s) # NoToken /\ ~isTokenExpired(getToken(s), nowMs)

\* getCurrentUserFromToken: the id claim of the stored token, "none" for null.
getCurrentUserFromToken(s, nowMs) ==
  IF getToken(s) = NoToken \/ isTokenExpired(getToken(s), nowMs)
  THEN "none"
  ELSE getTokenPayload(getToken(s))

\* ------------------------------------------------------------- http client

\* The request interceptor of authApiClient: the Authorization header it sets.
requestInterceptor(s, nowMs) ==
  IF getToken(s) # NoToken /\ ~isTokenExpired(getToken(s), nowMs)
  THEN getToken(s)
  ELSE NoToken

\* A request leaves through the request interceptor and awaits its response.
send(s, r, nowMs) ==
  [s EXCEPT !.inflight = @ (+) SetToBag({r}), !.sent = r.op,
            !.bearer = requestInterceptor(s, nowMs)]

receive(s, r) == [s EXCEPT !.inflight = @ (-) SetToBag({r})]

\* ------------------------------------------------------------ query cache

\* queryClient.setQueryData(authQueryKeys.user, v).
setQueryData(s, v) == [s EXCEPT !.data = v, !.invalidated = FALSE]

\* The request of a fetch that is cancelled or whose query is removed stays in
\* flight; only the interceptors will see its response.
abandon(b) ==
  LET liveMe == {r \in BagToSet(b) : r.op = "me" /\ r.live}
  IN  IF liveMe = {} THEN b
      ELSE LET r == CHOOSE x \in liveMe : TRUE
           IN  (b (-) SetToBag({r})) (+) SetToBag({Req("me", "none", FALSE)})

\* queryClient.clear(): every query is removed from the cache.
clear(s) ==
  [s EXCEPT !.data = NoData, !.invalidated = FALSE, !.attached = FALSE,
            !.fetching = "idle", !.failureCount = 0, !.inflight = abandon(@)]

startFetchUnchecked(s, nowMs) ==
  send([s EXCEPT !.fetching = "fetching", !.failureCount = 0],
       Req("me", getToken(s).id, TRUE), nowMs)

\* The queryFn of the useAuth user query, up to its request.
startFetch(s, nowMs) ==
  IF ~checkIsAuthenticated(s, nowMs)
  THEN [s EXCEPT !.data = Null, !.invalidated = FALSE,
                 !.fetching = "idle", !.failureCount = 0, !.result = "null"]
  ELSE send([s EXCEPT !.fetching = "fetching", !.failureCount = 0],
            Req("me", getToken(s).id, TRUE), nowMs)

\* Query.fetch: a fetch under way is kept, unless the entry has data and the
\* caller asked for cancelRefetch.
fetchQuery(s, nowMs, cancelRefetch) ==
  IF s.fetching # "idle"
  THEN IF s.data # NoData /\ cancelRefetch
       THEN startFetch([s EXCEPT !.inflight = abandon(@)], nowMs)
       ELSE s
  ELSE startFetch(s, nowMs)

\* queryClient.invalidateQueries({ queryKey: authQueryKeys.user }): the entry
\* is marked invalidated and, when an enabled observer holds it, refetched.
invalidateQueries(s, nowMs) ==
  IF s.enabled /\ s.attached
  THEN fetchQuery([s EXCEPT !.invalidated = TRUE], nowMs, TRUE)
  ELSE [s EXCEPT !.invalidated = TRUE]

\* useAuth handleAuthLogout, the listener of auth:logout.
handleAuthLogout(s) == clear(setQueryData(s, Null))

responseInterceptorQuiet(s, outcome) ==
  IF outcome = "unauthorized" THEN removeToken(s) ELSE s

\* The response interceptor of authApiClient, before it rejects with the error.
responseInterceptor(s, outcome) ==
  IF outcome = "unauthorized"
  THEN handleAuthLogout([removeToken(s) EXCEPT !.dispatched = TRUE])
  ELSE s

\* What the caller of a client request gets: both response interceptors pass a
\* response on and end in Promise.reject(error) for an error. "none": resolved.
clientError(outcome) == IF outcome = "ok" THEN "none" ELSE outcome

\* --------------------------------------------------------------- mutations

HasRoom == BagCardinality(inflight) < MaxInflight

\* What the identity service returns for the account u of the credentials or of
\* the code sent: a token of claims u, valid for ttl seconds from now.
issueToken(u, nowMs, ttl) == Token(3, TRUE, "object", (nowMs \div MsPerSec) + ttl, u)

onSuccessNoSeed(s, token, u, nowMs) == invalidateQueries(setToken(s, token), nowMs)

\* onSuccess of loginMutation, registerMutation and googleAuthMutation.
onSuccess(s, token, u, nowMs) ==
  invalidateQueries(setQueryData(setToken(s, token), Identity(u, "server")), nowMs)

onErrorKeepToken(s) == s

\* onError of the three.
onError(s) == removeToken(s)

\* useAuth login / register / googleAuth, of a component that has rendered the
\* hook: mutateAsync sends the request.
mutateAsyncCoalesced(s, op, nowMs) ==
  IF BagIn(Req(op, "none", TRUE), s.inflight) THEN s
  ELSE send(s, Req(op, "none", TRUE), nowMs)

\* mutateAsync of a mutation: a call runs the mutation function, which sends
\* the request, whether or not an earlier call is pending.
mutateAsync(s, op, nowMs) == send(s, Req(op, "none", TRUE), nowMs)

Mutate(op) ==
  /\ mounted
  /\ HasRoom
  /\ LET s1 == mutateAsync(Cur, op, now)
     IN  Commit(s1, Did(op, "none", s1, "none"))
  /\ UNCHANGED <<now, storageEvents, probeVars, auxVars>>

Login == Mutate("login")

Register == Mutate("register")

GoogleAuth == Mutate("google")

\* The response of a login, register or OAuth exchange, and its handlers.
AuthSucceeds ==
  \E r \in BagToSet(inflight), u \in Users, ttl \in 1..MaxTtl :
    /\ r.op \in AuthOps
    /\ (now \div MsPerSec) + ttl <= MaxExp
    /\ LET s1 == onSuccess(receive(Cur, r), issueToken(u, now, ttl), u, now)
       IN  Commit(s1, Did(r.op, "ok", s1, clientError("ok")))
    /\ UNCHANGED <<now, storageEvents, probeVars, auxVars>>

AuthFails ==
  \E r \in BagToSet(inflight), outcome \in Outcomes \ {"ok"} :
    /\ r.op \in AuthOps
    /\ LET s1 == responseInterceptor(receive(Cur, r), outcome)
           s2 == IF clientError(outcome) # "none" THEN onError(s1) ELSE s1
       IN  Commit(s2, Did(r.op, outcome, s2, clientError(outcome)))
    /\ UNCHANGED <<now, storageEvents, probeVars, auxVars>>

\* useAuth logout: logoutMutation.mutateAsync().
Logout ==
  /\ mounted
  /\ HasRoom
  /\ LET s1 == send(Cur, Req("logout", "none", TRUE), now)
     IN  Commit(s1, Did("logout", "none", s1, "none"))
  /\ UNCHANGED <<now, storageEvents, probeVars, auxVars>>

logoutOnSuccessKeepCache(s) == removeToken(s)

\* onSuccess of logoutMutation.
logoutOnSuccess(s) == clear(setQueryData(removeToken(s), Null))

\* authApi.logout after the response: the catch swallows an error, the finally
\* removes the token; then onSuccess, since authApi.logout always resolves.
LogoutSettles ==
  \E outcome \in Outcomes :
    /\ BagIn(Req("logout", "none", TRUE), inflight)
    /\ LET s1 == responseInterceptor(receive(Cur, Req("logout", "none", TRUE)), outcome)
           s2 == removeToken(s1)
           s3 == logoutOnSuccess(s2)
       IN  Commit(s3, Did("logout", outcome, s3, clientError(outcome)))
    /\ UNCHANGED <<now, storageEvents, probeVars, auxVars>>

\* ----------------------------------------------------------- session query

retryThrice(count, outcome) == IF outcome = "unauthorized" THEN FALSE ELSE count < 3

\* The retry option of the user query: retry(failureCount, error).
retry(count, outcome) == IF outcome = "unauthorized" THEN FALSE ELSE count < 2

\* A render of the component that calls useAuth: useQuery gives the observer
\* its options, with enabled: checkIsAuthenticated() evaluated now, and the
\* observer fetches when it is newly enabled, or newly given the entry, and the
\* entry is stale (no data, or invalidated).
render(s, nowMs) ==
  LET en == checkIsAuthenticated(s, nowMs)
      s1 == [s EXCEPT !.enabled = en, !.attached = TRUE, !.mounted = TRUE]
  IN  IF en /\ (~s.attached \/ ~s.enabled) /\ (s.data = NoData \/ s.invalidated)
      THEN fetchQuery(s1, nowMs, FALSE)
      ELSE s1

Render ==
  /\ HasRoom \/ render(Cur, now).inflight = inflight
  /\ Commit(render(Cur, now), Did("render", "none", render(Cur, now), "none"))
  /\ UNCHANGED <<now, storageEvents, probeVars, auxVars>>

\* useAuth refreshUser: refetch() of the user query.
RefreshUser ==
  /\ attached
  /\ HasRoom \/ fetchQuery(Cur, now, TRUE).inflight = inflight
  /\ Commit(fetchQuery(Cur, now, TRUE),
            Did("refetch", "none", fetchQuery(Cur, now, TRUE), "none"))
  /\ UNCHANGED <<now, storageEvents, probeVars, auxVars>>

\* The queryFn after a failed request: the catch block, then the retry option.
queryFnCatchRethrows(s, outcome, nowMs) ==
  IF retry(s.failureCount, outcome)
  THEN [s EXCEPT !.fetching = "retry", !.failureCount = @ + 1, !.result = "throws"]
  ELSE [s EXCEPT !.fetching = "idle", !.failureCount = @ + 1, !.result = "throws"]

queryFnCatch(s, outcome, nowMs) ==
  IF getCurrentUserFromToken(s, nowMs) # "none"
  THEN [s EXCEPT !.data = Identity(getCurrentUserFromToken(s, nowMs), "token"),
                 !.invalidated = FALSE, !.fetching = "idle", !.failureCount = 0,
                 !.result = "token-identity"]
  ELSE IF retry(s.failureCount, outcome)
       THEN [s EXCEPT !.fetching = "retry", !.failureCount = @ + 1,
                      !.result = "throws"]
       ELSE [s EXCEPT !.fetching = "idle", !.failureCount = @ + 1,
                      !.result = "throws"]

\* The response of GET /auth/me to the session fetch that waits for it. When
\* the response's own 401 has removed the query, the catch block still runs,
\* and what it returns or throws reaches no query.
MeResponds ==
  \E r \in BagToSet(inflight), outcome \in Outcomes :
    /\ r.op = "me" /\ r.live
    /\ LET s0 == receive(Cur, r)
           s1 == responseInterceptor(s0, outcome)
           s2 == IF clientError(outcome) = "none"
                 THEN [s0 EXCEPT !.data = Identity(r.id, "server"),
                                 !.invalidated = FALSE, !.fetching = "idle",
                                 !.failureCount = 0, !.result = "identity"]
                 ELSE IF s1.fetching = "fetching"
                      THEN queryFnCatch(s1, outcome, now)
                      ELSE [s1 EXCEPT !.result = queryFnCatch(s1, outcome, now).result]
       IN  Commit(s2, Did("me", outcome, s2, clientError(outcome)))
    /\ UNCHANGED <<now, storageEvents, probeVars, auxVars>>

\* The response to a request whose fetch was cancelled or whose query was
\* removed: the interceptors run, the result is dropped.
AbandonedMeResponds ==
  \E r \in BagToSet(inflight), outcome \in Outcomes :
    /\ r.op = "me" /\ ~r.live
    /\ LET s1 == responseInterceptor(receive(Cur, r), outcome)
       IN  Commit(s1, Did("me-dropped", outcome, s1, clientError(outcome)))
    /\ UNCHANGED <<now, storageEvents, probeVars, auxVars>>

\* The retry of a failed session fetch, after its delay: the queryFn again.
RetryFetch ==
  /\ fetching = "retry"
  /\ HasRoom
  /\ LET s1 == IF ~checkIsAuthenticated(Cur, now)
               THEN [Cur EXCEPT !.data = Null, !.invalidated = FALSE,
                                !.fetching = "idle", !.failureCount = 0,
                                !.result = "null"]
               ELSE send([Cur EXCEPT !.fetching = "fetching"],
                         Req("me", getToken(Cur).id, TRUE), now)
     IN  Commit(s1, Did("retry", "none", s1, "none"))
  /\ UNCHANGED <<now, storageEvents, probeVars, auxVars>>

checkTokenValidityNot(s, nowMs) == s

\* useAuth checkTokenValidity, run on mount and every minute.
checkTokenValidity(s, nowMs) ==
  IF ~checkIsAuthenticated(s, nowMs) THEN setQueryData(s, Null) ELSE s

CheckTokenValidity ==
  /\ mounted
  /\ Commit(checkTokenValidity(Cur, now), Did("check", "none", Cur, "none"))
  /\ UNCHANGED <<now, storageEvents, probeVars, auxVars>>

\* ------------------------------------------------------- time and siblings

Tick ==
  /\ now < MaxTicks * TickMs
  /\ now' = now + TickMs
  /\ last' = NoLast
  /\ UNCHANGED <<localStorage, cookie, data, invalidated, enabled, attached,
                 mounted, fetching, failureCount, inflight, storageEvents, probeVars, auxVars>>

\* Another tab of the origin removes the token (removeToken there, in its
\* logout, its 401 or its failed login): this tab is notified when
\* localStorage held one.
SiblingRemovesToken ==
  /\ localStorage # NoToken => storageEvents < MaxEvents
  /\ localStorage' = NoToken
  /\ cookie' = NoToken
  /\ storageEvents' = IF localStorage # NoToken THEN storageEvents + 1 ELSE storageEvents
  /\ last' = NoLast
  /\ UNCHANGED <<now, data, invalidated, enabled, attached, mounted, fetching,
                 failureCount, inflight, probeVars, auxVars>>

\* AuthProvider handleStorageChange for key auth_token with newValue null:
\* auth.logout().
HandleStorageChange ==
  /\ storageEvents > 0
  /\ mounted
  /\ HasRoom
  /\ storageEvents' = storageEvents - 1
  /\ LET s1 == send(Cur, Req("logout", "none", TRUE), now)
     IN  Commit(s1, Did("storage", "none", s1, "none"))
  /\ UNCHANGED <<now, probeVars, auxVars>>

\* ---------------------------------------------------------- specifications

\* A tab that has just loaded the application: nothing cached, nothing sent.
TabInit ==
  /\ data = NoData
  /\ invalidated = FALSE
  /\ enabled = FALSE
  /\ attached = FALSE
  /\ mounted = FALSE
  /\ fetching = "idle"
  /\ failureCount = 0
  /\ inflight = EmptyBag
  /\ storageEvents = 0
  /\ last = NoLast

NoProbe ==
  /\ pToken = NoToken
  /\ pExpired = "none"
  /\ pReq = NoRequest
  /\ pResp = NoResponse

\* No success handler is under way.
NoHandler == [pc |-> 0, hook |-> "none", token |-> NoToken, id |-> "none",
              stored |-> FALSE, seeded |-> FALSE]

NoStep == handler = NoHandler

NoCall == [op |-> "none", arg |-> NoToken, result |-> NoToken]

\* The application is served over https; no call of the token store on its own.
NoStore ==
  /\ page = SecurePage
  /\ call = NoCall

\* A StorageEvent, by what the listener reads of it; newValue NoToken is null.
StorageEvent(key, newValue) == [key |-> key, newValue |-> newValue]

NoEvent == StorageEvent("none", NoToken)

NoCross ==
  /\ events = <<>>
  /\ delivered = NoEvent

\* A password, by what the forms read of it: its length and whether it has a
\* lowercase letter, an uppercase letter, a digit.
Password(len, lower, upper, digit) ==
  [len |-> len, lower |-> lower, upper |-> upper, digit |-> digit]

\* No form is shown.
NoFormData == [form |-> "none", name |-> 0, email |-> <<>>,
               password |-> Password(0, FALSE, FALSE, FALSE), confirmPassword |-> "empty"]

NoForm ==
  /\ formData = NoFormData
  /\ formErrors = {}

NoRace ==
  /\ invoked = 0
  /\ arrived = <<>>

\* A navigation by the router: the path asked for, whether the URL carries an
\* `error` parameter, the guard's response, and whether the page is yet to change.
Nav(to, error, resp, pending) ==
  [to |-> to, error |-> error, resp |-> resp, pending |-> pending]

NoNav == Nav(NoPath, FALSE, NoResponse, FALSE)

\* UserProfile is not shown.
NoProfileState == [shown |-> FALSE, code |-> FALSE, isHandlingCallback |-> FALSE,
                   started |-> 0, settled |-> 0]

NoProfile ==
  /\ profile = NoProfileState
  /\ nav = NoNav

\* No logout has completed since the session was last established.
NoLogoutYet == [done |-> FALSE, before |-> 0, after |-> 0]

NoSession == sinceLogout = NoLogoutYet

\* A token with the token store's isTokenExpired and the guard's isValidToken
\* of it; "none" before they are called.
Verdicts(token, expired, valid) == [token |-> token, expired |-> expired, valid |-> valid]

NoVerdicts == verdicts = Verdicts(NoToken, "none", "none")

\* A request as it leaves apiClient: its url and the token of its Authorization
\* header, NoToken when it has none.
Wire(url, authorization) == [url |-> url, authorization |-> authorization]

NoWire == wire = Wire("none", NoToken)

NoRetention ==
  /\ day = 0
  /\ cookieExpires = 0

\* The guard's redirect has not been followed.
NoHopState == [req |-> NoRequest, resp |-> NoResponse]

NoHop == hop = NoHopState

Tabs == 1..MaxTabs

\* A tab of the origin: whether its AuthProvider listens for storage events,
\* whether its cache holds a user, the storage events queued for it, its logout
\* requests in flight and the logouts its storage listener has started.
TabState(listening, user) ==
  [listening |-> listening, user |-> user, events |-> <<>>, logouts |-> 0, ran |-> 0]

NoCascade ==
  /\ tabs = [t \in Tabs |-> TabState(FALSE, FALSE)]
  /\ clicked = FALSE

\* AuthCallbackPage: whether it is shown, whether its URL has a `code` and an
\* `error` parameter, its status, whether the timer of its redirect is set,
\* and the exchanges it has started.
CallbackPage(shown, code, error) ==
  [shown |-> shown, code |-> code, error |-> error, status |-> "loading",
   timer |-> FALSE, started |-> 0]

NoCallback == callback = CallbackPage(FALSE, FALSE, FALSE)

\* The mutations of useAuth.
MutationOps == AuthOps \cup {"logout"}

\* ProtectedRoute has not rendered, and no mutation has been called.
NoRoute ==
  /\ route = [shown |-> "none", redirect |-> "none"]
  /\ isPending = [op \in MutationOps |-> FALSE]

NoAux == NoStep /\ NoStore /\ NoCross /\ NoForm /\ NoRace /\ NoProfile /\ NoSession /\ NoVerdicts /\ NoWire /\ NoRetention /\ NoHop /\ NoCascade /\ NoCallback /\ NoRoute

\* The tab loads with the token store empty, or holding the token that an
\* earlier visit or another tab left in both mediums.
Init ==
  /\ now = 0
  /\ localStorage \in {NoToken} \cup {issueToken(u, 0, ttl) : u \in Users, ttl \in 1..MaxTtl}
  /\ cookie = localStorage
  /\ TabInit
  /\ NoProbe
  /\ NoAux

Next ==
  \/ Login
  \/ Register
  \/ GoogleAuth
  \/ AuthSucceeds
  \/ AuthFails
  \/ Logout
  \/ LogoutSettles
  \/ Render
  \/ RefreshUser
  \/ MeResponds
  \/ AbandonedMeResponds
  \/ RetryFetch
  \/ CheckTokenValidity
  \/ Tick
  \/ SiblingRemovesToken
  \/ HandleStorageChange

Spec == Init /\ [][Next]_vars

\* isTokenExpired on every token and time.
InitToken ==
  /\ now \in Times
  /\ localStorage = NoToken
  /\ cookie = NoToken
  /\ TabInit
  /\ pToken \in AllTokens
  /\ pExpired = "none"
  /\ pReq = NoRequest
  /\ pResp = NoResponse
  /\ NoAux

NextToken == ApplyIsTokenExpired

SpecToken == InitToken /\ [][NextToken]_vars

\* middleware on every request and time.
InitGuard ==
  /\ now \in Times
  /\ localStorage = NoToken
  /\ cookie = NoToken
  /\ TabInit
  /\ pToken = NoToken
  /\ pExpired = "none"
  /\ pReq \in Requests
  /\ pResp = NoResponse
  /\ NoAux

NextGuard == ApplyMiddleware

SpecGuard == InitGuard /\ [][NextGuard]_vars

\* ----------------------------------- the success handlers, one statement a step

\* The hooks that give login, register and the OAuth exchange a success handler.
SuccessHooks == {"useAuth", "useAuthMutations"}

onSuccessStatementsSeedFirst(hook) ==
  IF hook = "useAuthMutations"
  THEN <<"setQueryData", "setToken">>
  ELSE <<"setQueryData", "setToken", "invalidateQueries">>

\* The statements of onSuccess, in the order of the source.
onSuccessStatements(hook) ==
  IF hook = "useAuthMutations"
  THEN <<"setToken", "setQueryData">>
  ELSE <<"setToken", "setQueryData", "invalidateQueries">>

\* One statement of onSuccess for the response h.
execute(stmt, s, h, nowMs) ==
  CASE stmt = "setToken" -> setToken(s, h.token)
    [] stmt = "setQueryData" -> setQueryData(s, Identity(h.id, "server"))
    [] stmt = "invalidateQueries" -> invalidateQueries(s, nowMs)

Running == handler.pc \in 1..Len(onSuccessStatements(handler.hook))

\* A mutation of one of the hooks succeeds: its onSuccess is called with the
\* response.
SuccessArrives ==
  \E hook \in SuccessHooks, u \in Users, ttl \in 1..MaxTtl :
    /\ ~Running
    /\ HasRoom
    /\ (now \div MsPerSec) + ttl <= MaxExp
    /\ handler' = [pc |-> 1, hook |-> hook, token |-> issueToken(u, now, ttl),
                   id |-> u, stored |-> FALSE, seeded |-> FALSE]
    /\ UNCHANGED <<now, tabVars, probeVars, storeVars, crossVars, formVars, raceVars, profileVars, sessionVars, agreeVars, wireVars, retentionVars, hopVars, cascadeVars, callbackVars, routeVars>>

\* The next statement of the handler runs.
SuccessStep ==
  /\ Running
  /\ LET stmt == onSuccessStatements(handler.hook)[handler.pc]
         s1 == execute(stmt, Cur, handler, now)
     IN  /\ Commit(s1, Did("onSuccess", "ok", s1, "none"))
         /\ handler' = [handler EXCEPT !.pc = @ + 1,
                                       !.stored = @ \/ stmt = "setToken",
                                       !.seeded = @ \/ stmt = "setQueryData"]
  /\ UNCHANGED <<now, storageEvents, probeVars, storeVars, crossVars, formVars, raceVars, profileVars, sessionVars, agreeVars, wireVars, retentionVars, hopVars, cascadeVars, callbackVars, routeVars>>

\* The state a success handler can find: any token store an earlier session
\* left, any value of the cache entry, the observer rendered or not.
InitSuccess ==
  /\ now \in Times
  /\ localStorage \in {NoToken} \cup {issueToken(u, 0, ttl) : u \in Users, ttl \in 1..MaxTtl}
  /\ cookie = localStorage
  /\ data \in {NoData, Null} \cup {Identity(u, "server") : u \in Users}
  /\ invalidated = FALSE
  /\ enabled \in BOOLEAN
  /\ attached \in BOOLEAN
  /\ mounted = TRUE
  /\ fetching = "idle"
  /\ failureCount = 0
  /\ inflight = EmptyBag
  /\ storageEvents = 0
  /\ last = NoLast
  /\ NoProbe
  /\ NoAux

NextSuccess ==
  \/ SuccessArrives
  \/ SuccessStep
  \/ SiblingRemovesToken

SpecSuccess == InitSuccess /\ [][NextSuccess]_vars

\* ------------------------------------------------- the token store on its own

\* The tokens a session of the bounds can have stored.
StoreTokens == {issueToken(u, 0, ttl) : u \in Users, ttl \in 1..MaxExp}

CallSetToken ==
  \E token \in StoreTokens :
    /\ localStorage' = setToken(Cur, token).ls
    /\ cookie' = setToken(Cur, token).cookie
    /\ call' = [op |-> "setToken", arg |-> token, result |-> NoToken]
    /\ UNCHANGED <<now, data, invalidated, enabled, attached, mounted, fetching,
                   failureCount, inflight, storageEvents, last, probeVars,
                   stepVars, page, crossVars, formVars, raceVars, profileVars, sessionVars, agreeVars, wireVars, retentionVars, hopVars, cascadeVars, callbackVars, routeVars>>

CallRemoveToken ==
  /\ localStorage' = removeToken(Cur).ls
  /\ cookie' = removeToken(Cur).cookie
  /\ call' = [op |-> "removeToken", arg |-> NoToken, result |-> NoToken]
  /\ UNCHANGED <<now, data, invalidated, enabled, attached, mounted, fetching,
                 failureCount, inflight, storageEvents, last, probeVars,
                 stepVars, page, crossVars, formVars, raceVars, profileVars, sessionVars, agreeVars, wireVars, retentionVars, hopVars, cascadeVars, callbackVars, routeVars>>

CallGetToken ==
  /\ call' = [op |-> "getToken", arg |-> NoToken, result |-> getToken(Cur)]
  /\ UNCHANGED <<now, tabVars, probeVars, stepVars, page, crossVars, formVars, raceVars, profileVars, sessionVars, agreeVars, wireVars, retentionVars, hopVars, cascadeVars, callbackVars, routeVars>>

\* Any page, and any content of the two mediums that the page can see: a page
\* whose browser allows it no Secure cookie has no auth_token cookie.
InitStore ==
  /\ now = 0
  /\ page \in Pages
  /\ localStorage \in {NoToken} \cup StoreTokens
  /\ cookie \in IF page.secureAllowed THEN {NoToken} \cup StoreTokens ELSE {NoToken}
  /\ call = NoCall
  /\ TabInit
  /\ NoProbe
  /\ NoStep
  /\ NoCross
  /\ NoForm
  /\ NoRace
  /\ NoRoute
  /\ NoCallback
  /\ NoCascade
  /\ NoHop
  /\ NoRetention
  /\ NoWire
  /\ NoVerdicts
  /\ NoSession
  /\ NoProfile

NextStore ==
  \/ CallSetToken
  \/ CallRemoveToken
  \/ CallGetToken

SpecStore == InitStore /\ [][NextStore]_vars

\* ------------------------------------------------- storage events across tabs

\* What another tab of the origin does to localStorage: the browser queues a
\* storage event for this tab when the stored value changes.
SiblingRemoveItem ==
  /\ localStorage # NoToken
  /\ Len(events) < MaxEvents
  /\ localStorage' = NoToken
  /\ cookie' = NoToken
  /\ events' = Append(events, StorageEvent("auth_token", NoToken))
  /\ last' = NoLast
  /\ UNCHANGED <<now, data, invalidated, enabled, attached, mounted, fetching,
                 failureCount, inflight, storageEvents, probeVars, stepVars,
                 storeVars, delivered, formVars, raceVars, profileVars, sessionVars, agreeVars, wireVars, retentionVars, hopVars, cascadeVars, callbackVars, routeVars>>

SiblingSetItem ==
  \E token \in StoreTokens :
    /\ token # localStorage
    /\ Len(events) < MaxEvents
    /\ localStorage' = token
    /\ cookie' = token
    /\ events' = Append(events, StorageEvent("auth_token", token))
    /\ last' = NoLast
    /\ UNCHANGED <<now, data, invalidated, enabled, attached, mounted, fetching,
                   failureCount, inflight, storageEvents, probeVars, stepVars,
                   storeVars, delivered, formVars, raceVars, profileVars, sessionVars, agreeVars, wireVars, retentionVars, hopVars, cascadeVars, callbackVars, routeVars>>

\* Another key of localStorage is set or removed.
SiblingOtherKey ==
  \E newValue \in {NoToken} \cup StoreTokens :
    /\ Len(events) < MaxEvents
    /\ events' = Append(events, StorageEvent("other", newValue))
    /\ last' = NoLast
    /\ UNCHANGED <<now, localStorage, cookie, data, invalidated, enabled, attached,
                   mounted, fetching, failureCount, inflight, storageEvents,
                   probeVars, stepVars, storeVars, delivered, formVars, raceVars, profileVars, sessionVars, agreeVars, wireVars, retentionVars, hopVars, cascadeVars, callbackVars, routeVars>>

handleStorageChangeAnyKey(s, e, nowMs) ==
  IF e.newValue = NoToken
  THEN send(s, Req("logout", "none", TRUE), nowMs)
  ELSE s

\* AuthProvider handleStorageChange: auth.logout() for the removal of auth_token.
handleStorageChange(s, e, nowMs) ==
  IF e.key = "auth_token" /\ e.newValue = NoToken
  THEN send(s, Req("logout", "none", TRUE), nowMs)
  ELSE s

\* The browser calls the storage listener of the mounted AuthProvider.
DeliverStorageEvent ==
  /\ events # <<>>
  /\ mounted
  /\ HasRoom
  /\ LET s1 == handleStorageChange(Cur, Head(events), now)
     IN  Commit(s1, Did("storage", "none", s1, "none"))
  /\ events' = Tail(events)
  /\ delivered' = Head(events)
  /\ UNCHANGED <<now, storageEvents, probeVars, stepVars, storeVars, formVars, raceVars, profileVars, sessionVars, agreeVars, wireVars, retentionVars, hopVars, cascadeVars, callbackVars, routeVars>>

\* A tab with a mounted AuthProvider, in any state of its session.
InitStorage ==
  /\ now = 0
  /\ localStorage \in {NoToken} \cup StoreTokens
  /\ cookie = localStorage
  /\ data \in {NoData, Null} \cup {Identity(u, src) : u \in Users, src \in {"server", "token"}}
  /\ invalidated = FALSE
  /\ enabled = FALSE
  /\ attached = TRUE
  /\ mounted = TRUE
  /\ fetching = "idle"
  /\ failureCount = 0
  /\ inflight = EmptyBag
  /\ storageEvents = 0
  /\ last = NoLast
  /\ NoProbe
  /\ NoAux

NextStorage ==
  \/ SiblingRemoveItem
  \/ SiblingSetItem
  \/ SiblingOtherKey
  \/ DeliverStorageEvent
  \/ LogoutSettles

SpecStorage == InitStorage /\ [][NextStorage]_vars

\* ------------------------------------------------- login and register forms

\* Pieces of the text of an email field: nothing, a letter, a space, a space
\* and a letter.
EmailParts == {<<>>, <<"x">>, <<" ">>, <<" ", "x">>}

\* The emails typed: three pieces, with or without an "@" and a "." between
\* them.
Emails ==
  {a \o at \o b \o dot \o c :
     a \in EmailParts, b \in EmailParts, c \in EmailParts,
     at \in {<<>>, <<"@">>}, dot \in {<<>>, <<".">>}}

\* The passwords typed: a password has a character for each kind it has.
Passwords ==
  {pw \in {Password(len, lo, up, di) :
             len \in 0..MaxPwLen, lo \in BOOLEAN, up \in BOOLEAN, di \in BOOLEAN} :
     (IF pw.lower THEN 1 ELSE 0) + (IF pw.upper THEN 1 ELSE 0)
       + (IF pw.digit THEN 1 ELSE 0) <= pw.len}

\* confirmPassword against password: nothing typed, the same text, another.
Confirms(pw) ==
  IF pw.len = 0 THEN {"empty", "differs"} ELSE {"empty", "same", "differs"}

\* /\S+@\S+\.\S+/.test(email): somewhere in the text, a non-space character,
\* "@", one or more non-space characters, ".", a non-space character.
emailPattern(email) ==
  \E p \in 2..Len(email), q \in 4..(Len(email) - 1) :
    /\ q >= p + 2
    /\ email[p] = "@"
    /\ email[p - 1] # " "
    /\ email[q] = "."
    /\ \A i \in (p + 1)..(q - 1) : email[i] # " "
    /\ email[q + 1] # " "

\* /(?=.*[a-z])(?=.*[A-Z])(?=.*\d)/.test(password).
passwordPattern(pw) == pw.lower /\ pw.upper /\ pw.digit

\* The check of the email field, the same in both forms.
emailErrors(f) ==
  IF Len(f.email) = 0 THEN {"email"}
  ELSE IF ~emailPattern(f.email) THEN {"email"}
  ELSE {}

\* LoginForm validateForm: the fields in error.
loginErrors(f) ==
  emailErrors(f)
    \cup (IF f.password.len = 0 THEN {"password"}
          ELSE IF f.password.len < 6 THEN {"password"}
          ELSE {})

registerErrorsNoConfirm(f) ==
  (IF f.name = 0 THEN {"name"} ELSE IF f.name < 2 THEN {"name"} ELSE {})
    \cup emailErrors(f)
    \cup (IF f.password.len = 0 THEN {"password"}
          ELSE IF f.password.len < 8 THEN {"password"}
          ELSE IF ~passwordPattern(f.password) THEN {"password"}
          ELSE {})

\* RegisterForm validateForm: the fields in error.
registerErrors(f) ==
  (IF f.name = 0 THEN {"name"} ELSE IF f.name < 2 THEN {"name"} ELSE {})
    \cup emailErrors(f)
    \cup (IF f.password.len = 0 THEN {"password"}
          ELSE IF f.password.len < 8 THEN {"password"}
          ELSE IF ~passwordPattern(f.password) THEN {"password"}
          ELSE {})
    \cup (IF f.confirmPassword = "empty" THEN {"confirmPassword"}
          ELSE IF f.confirmPassword # "same" THEN {"confirmPassword"}
          ELSE {})

\* handleSubmit of a form: validateForm(), and when it passes, the mutation
\* of useAuth (login or register), which sends its request.
handleSubmit(s, f, errors, nowMs) ==
  IF errors # {} THEN s
  ELSE send(s, Req(f.form, "none", TRUE), nowMs)

SubmitLogin ==
  /\ formData.form = "login"
  /\ last = NoLast
  /\ LET s1 == handleSubmit(Cur, formData, loginErrors(formData), now)
     IN  Commit(s1, Did("submit", "none", s1, "none"))
  /\ formErrors' = loginErrors(formData)
  /\ UNCHANGED <<now, storageEvents, probeVars, stepVars, storeVars, crossVars,
                 formData, raceVars, profileVars, sessionVars, agreeVars, wireVars, retentionVars, hopVars, cascadeVars, callbackVars, routeVars>>

SubmitRegister ==
  /\ formData.form = "register"
  /\ last = NoLast
  /\ LET s1 == handleSubmit(Cur, formData, registerErrors(formData), now)
     IN  Commit(s1, Did("submit", "none", s1, "none"))
  /\ formErrors' = registerErrors(formData)
  /\ UNCHANGED <<now, storageEvents, probeVars, stepVars, storeVars, crossVars,
                 formData, raceVars, profileVars, sessionVars, agreeVars, wireVars, retentionVars, hopVars, cascadeVars, callbackVars, routeVars>>

\* A form filled in any way, in a tab that has rendered and sent nothing.
InitForm ==
  /\ now = 0
  /\ localStorage = NoToken
  /\ cookie = NoToken
  /\ data = NoData
  /\ invalidated = FALSE
  /\ enabled = FALSE
  /\ attached = TRUE
  /\ mounted = TRUE
  /\ fetching = "idle"
  /\ failureCount = 0
  /\ inflight = EmptyBag
  /\ storageEvents = 0
  /\ last = NoLast
  /\ \E n \in 0..MaxNameLen, e \in Emails, pw \in Passwords :
       \/ /\ n = 0
          /\ formData = [form |-> "login", name |-> 0, email |-> e, password |-> pw,
                         confirmPassword |-> "empty"]
       \/ \E c \in Confirms(pw) :
            formData = [form |-> "register", name |-> n, email |-> e,
                        password |-> pw, confirmPassword |-> c]
  /\ formErrors = {}
  /\ NoProbe
  /\ NoStep
  /\ NoStore
  /\ NoCross
  /\ NoRace
  /\ NoRoute
  /\ NoCallback
  /\ NoCascade
  /\ NoHop
  /\ NoRetention
  /\ NoWire
  /\ NoVerdicts
  /\ NoSession
  /\ NoProfile

NextForm ==
  \/ SubmitLogin
  \/ SubmitRegister

SpecForm == InitForm /\ [][NextForm]_vars

\* ------------------------------------------------ concurrent login mutations

LoginReq == Req("login", "none", TRUE)

\* useAuth login, called again whether or not an earlier call has settled.
RaceLogin ==
  /\ mounted
  /\ HasRoom
  /\ invoked < MaxLogins
  /\ LET s1 == mutateAsync(Cur, "login", now)
     IN  Commit(s1, Did("login", "none", s1, "none"))
  /\ invoked' = invoked + 1
  /\ UNCHANGED <<now, storageEvents, probeVars, stepVars, storeVars, crossVars,
                 formVars, arrived, profileVars, sessionVars, agreeVars, wireVars, retentionVars, hopVars, cascadeVars, callbackVars, routeVars>>

\* The response of one of the logins in flight, a success, and onSuccess.
RaceLoginSucceeds ==
  \E u \in Users, ttl \in 1..MaxTtl :
    /\ BagIn(LoginReq, inflight)
    /\ (now \div MsPerSec) + ttl <= MaxExp
    /\ LET s1 == onSuccess(receive(Cur, LoginReq), issueToken(u, now, ttl), u, now)
       IN  Commit(s1, Did("login", "ok", s1, clientError("ok")))
    /\ arrived' = Append(arrived, [outcome |-> "ok", token |-> issueToken(u, now, ttl),
                                   others |-> CopiesIn(LoginReq, inflight) - 1])
    /\ UNCHANGED <<now, storageEvents, probeVars, stepVars, storeVars, crossVars,
                   formVars, invoked, profileVars, sessionVars, agreeVars, wireVars, retentionVars, hopVars, cascadeVars, callbackVars, routeVars>>

\* The response of one of the logins in flight, a failure, and onError.
RaceLoginFails ==
  \E outcome \in Outcomes \ {"ok"} :
    /\ BagIn(LoginReq, inflight)
    /\ LET s1 == responseInterceptor(receive(Cur, LoginReq), outcome)
           s2 == IF clientError(outcome) # "none" THEN onError(s1) ELSE s1
       IN  Commit(s2, Did("login", outcome, s2, clientError(outcome)))
    /\ arrived' = Append(arrived, [outcome |-> outcome, token |-> NoToken,
                                   others |-> CopiesIn(LoginReq, inflight) - 1])
    /\ UNCHANGED <<now, storageEvents, probeVars, stepVars, storeVars, crossVars,
                   formVars, invoked, profileVars, sessionVars, agreeVars, wireVars, retentionVars, hopVars, cascadeVars, callbackVars, routeVars>>

NextRace ==
  \/ Render
  \/ RaceLogin
  \/ RaceLoginSucceeds
  \/ RaceLoginFails
  \/ MeResponds
  \/ AbandonedMeResponds
  \/ RetryFetch

SpecRace == Init /\ [][NextRace]_vars

\* ----------------------------------------------- UserProfile on the dashboard

GoogleReq == Req("google", "none", TRUE)

\* router.push / router.replace: the request for the page goes through the
\* route guard with the cookie the browser holds, and no Authorization header.
routerNavigate(s, path, error, nowMs) ==
  Nav(path, error, middleware(Request(path, FALSE, s.cookie, NoToken), nowMs), TRUE)

handleGoogleCallbackCatchToDashboard(s, nowMs) ==
  routerNavigate(s, Path("/dashboard", ""), FALSE, nowMs)

\* The catch of handleGoogleCallback: router.push('/auth/signin?error=oauth_callback_failed').
handleGoogleCallbackCatch(s, nowMs) ==
  routerNavigate(s, Path("/auth/signin", ""), TRUE, nowMs)

\* The effect of UserProfile: with a code in the URL, no user and no callback
\* being handled, it marks the callback as handled and calls googleAuth.
HandleGoogleCallback ==
  /\ mounted
  /\ profile.shown
  /\ profile.code /\ ~isIdentity(data) /\ ~profile.isHandlingCallback
  /\ HasRoom
  /\ profile.started < MaxExchanges
  /\ LET s1 == mutateAsync(Cur, "google", now)
     IN  Commit(s1, Did("google", "none", s1, "none"))
  /\ profile' = [profile EXCEPT !.isHandlingCallback = TRUE, !.started = @ + 1]
  /\ UNCHANGED <<now, storageEvents, probeVars, stepVars, storeVars, crossVars,
                 formVars, raceVars, nav, sessionVars, agreeVars, wireVars, retentionVars, hopVars, cascadeVars, callbackVars, routeVars>>

\* The exchange succeeds: onSuccess of googleAuthMutation, then
\* router.replace('/dashboard') and, in the finally, setIsHandlingCallback(false).
ExchangeSucceeds ==
  \E u \in Users, ttl \in 1..MaxTtl :
    /\ BagIn(GoogleReq, inflight)
    /\ (now \div MsPerSec) + ttl <= MaxExp
    /\ LET s1 == onSuccess(receive(Cur, GoogleReq), issueToken(u, now, ttl), u, now)
       IN  /\ Commit(s1, Did("exchange", "ok", s1, clientError("ok")))
           /\ nav' = routerNavigate(s1, Path("/dashboard", ""), FALSE, now)
    /\ profile' = [profile EXCEPT !.isHandlingCallback = FALSE, !.settled = @ + 1]
    /\ UNCHANGED <<now, storageEvents, probeVars, stepVars, storeVars, crossVars,
                   formVars, raceVars, sessionVars, agreeVars, wireVars, retentionVars, hopVars, cascadeVars, callbackVars, routeVars>>

\* The exchange fails: the response interceptor, onError of googleAuthMutation,
\* then the catch and the finally of handleGoogleCallback.
ExchangeFails ==
  \E outcome \in Outcomes \ {"ok"} :
    /\ BagIn(GoogleReq, inflight)
    /\ LET s1 == responseInterceptor(receive(Cur, GoogleReq), outcome)
           s2 == IF clientError(outcome) # "none" THEN onError(s1) ELSE s1
       IN  /\ Commit(s2, Did("exchange", outcome, s2, clientError(outcome)))
           /\ nav' = handleGoogleCallbackCatch(s2, now)
    /\ profile' = [profile EXCEPT !.isHandlingCallback = FALSE, !.settled = @ + 1]
    /\ UNCHANGED <<now, storageEvents, probeVars, stepVars, storeVars, crossVars,
                   formVars, raceVars, sessionVars, agreeVars, wireVars, retentionVars, hopVars, cascadeVars, callbackVars, routeVars>>

\* The navigation takes effect: the URL loses its parameters, and UserProfile
\* stays only when the page reached is the dashboard.
NavigationCommits ==
  /\ nav.pending
  /\ nav' = [nav EXCEPT !.pending = FALSE]
  /\ profile' = [profile EXCEPT
       !.code = FALSE,
       !.shown = @ /\ (IF nav.resp.kind = "redirect" THEN nav.resp.to ELSE nav.to)
                        = Path("/dashboard", "")]
  /\ UNCHANGED <<now, tabVars, probeVars, stepVars, storeVars, crossVars,
                 formVars, raceVars, sessionVars, agreeVars, wireVars, retentionVars, hopVars, cascadeVars, callbackVars, routeVars>>

\* The dashboard is reached, with or without a `code` in its URL.
InitProfile ==
  /\ now = 0
  /\ localStorage \in {NoToken} \cup {issueToken(u, 0, ttl) : u \in Users, ttl \in 1..MaxTtl}
  /\ cookie = localStorage
  /\ TabInit
  /\ NoProbe
  /\ NoStep
  /\ NoStore
  /\ NoCross
  /\ NoForm
  /\ NoRace
  /\ NoRoute
  /\ NoCallback
  /\ NoCascade
  /\ NoHop
  /\ NoRetention
  /\ NoWire
  /\ NoVerdicts
  /\ NoSession
  /\ \E c \in BOOLEAN :
       profile = [shown |-> TRUE, code |-> c, isHandlingCallback |-> FALSE,
                  started |-> 0, settled |-> 0]
  /\ nav = NoNav

NextProfile ==
  \/ Render
  \/ HandleGoogleCallback
  \/ ExchangeSucceeds
  \/ ExchangeFails
  \/ NavigationCommits
  \/ MeResponds
  \/ AbandonedMeResponds
  \/ RetryFetch
  \/ Tick

SpecProfile == InitProfile /\ [][NextProfile]_vars

\* ------------------------------------------------ logins around a logout

\* useAuth login, before or after a logout has completed.
SessionLogin ==
  /\ mounted
  /\ HasRoom
  /\ LET s1 == mutateAsync(Cur, "login", now)
     IN  Commit(s1, Did("login", "none", s1, "none"))
  /\ sinceLogout' = IF sinceLogout.done
                    THEN [sinceLogout EXCEPT !.after = @ + 1]
                    ELSE sinceLogout
  /\ UNCHANGED <<now, storageEvents, probeVars, stepVars, storeVars, crossVars,
                 formVars, raceVars, profileVars, agreeVars, wireVars, retentionVars, hopVars, cascadeVars, callbackVars, routeVars>>

\* The logout completes, as in LogoutSettles; the logins then in flight were
\* sent before it.
SessionLogoutSettles ==
  \E outcome \in Outcomes :
    /\ BagIn(Req("logout", "none", TRUE), inflight)
    /\ LET s1 == responseInterceptor(receive(Cur, Req("logout", "none", TRUE)), outcome)
           s2 == removeToken(s1)
           s3 == logoutOnSuccess(s2)
       IN  /\ Commit(s3, Did("logout", outcome, s3, clientError(outcome)))
           /\ sinceLogout' = [done |-> TRUE, before |-> CopiesIn(LoginReq, s3.inflight),
                              after |-> 0]
    /\ UNCHANGED <<now, storageEvents, probeVars, stepVars, storeVars, crossVars,
                   formVars, raceVars, profileVars, agreeVars, wireVars, retentionVars, hopVars, cascadeVars, callbackVars, routeVars>>

\* The login that a response answers was sent before the completed logout
\* (stale) or after it.
answered(stale) ==
  IF ~sinceLogout.done THEN sinceLogout
  ELSE IF stale THEN [sinceLogout EXCEPT !.before = @ - 1]
  ELSE [sinceLogout EXCEPT !.after = @ - 1]

CanAnswer(stale) ==
  sinceLogout.done => IF stale THEN sinceLogout.before > 0 ELSE sinceLogout.after > 0

\* A login succeeds, and onSuccess runs. A login sent after the logout
\* establishes a new session.
SessionLoginSucceeds ==
  \E u \in Users, ttl \in 1..MaxTtl, stale \in BOOLEAN :
    /\ BagIn(LoginReq, inflight)
    /\ CanAnswer(stale)
    /\ (now \div MsPerSec) + ttl <= MaxExp
    /\ LET s1 == onSuccess(receive(Cur, LoginReq), issueToken(u, now, ttl), u, now)
       IN  Commit(s1, Did("login", "ok", s1, clientError("ok")))
    /\ sinceLogout' = IF stale THEN answered(stale) ELSE NoLogoutYet
    /\ UNCHANGED <<now, storageEvents, probeVars, stepVars, storeVars, crossVars,
                   formVars, raceVars, profileVars, agreeVars, wireVars, retentionVars, hopVars, cascadeVars, callbackVars, routeVars>>

\* A login fails, and onError runs.
SessionLoginFails ==
  \E outcome \in Outcomes \ {"ok"}, stale \in BOOLEAN :
    /\ BagIn(LoginReq, inflight)
    /\ CanAnswer(stale)
    /\ LET s1 == responseInterceptor(receive(Cur, LoginReq), outcome)
           s2 == IF clientError(outcome) # "none" THEN onError(s1) ELSE s1
       IN  Commit(s2, Did("login", outcome, s2, clientError(outcome)))
    /\ sinceLogout' = answered(stale)
    /\ UNCHANGED <<now, storageEvents, probeVars, stepVars, storeVars, crossVars,
                   formVars, raceVars, profileVars, agreeVars, wireVars, retentionVars, hopVars, cascadeVars, callbackVars, routeVars>>

NextSession ==
  \/ Render
  \/ SessionLogin
  \/ SessionLoginSucceeds
  \/ SessionLoginFails
  \/ Logout
  \/ SessionLogoutSettles
  \/ MeResponds
  \/ AbandonedMeResponds
  \/ RetryFetch

SpecSession == Init /\ [][NextSession]_vars

\* ------------------------------------- the token store and the guard, one token

\* tokenManager.isTokenExpired(token) and the guard's isValidToken(token),
\* called at the same instant.
ApplyBoth ==
  /\ verdicts.token # NoToken
  /\ verdicts.expired = "none"
  /\ verdicts' = Verdicts(verdicts.token,
                          isTokenExpiredResult(verdicts.token, now),
                          IF isValidToken(verdicts.token, now) THEN "true" ELSE "false")
  /\ UNCHANGED <<now, tabVars, probeVars, stepVars, storeVars, crossVars,
                 formVars, raceVars, profileVars, sessionVars, wireVars, retentionVars, hopVars, cascadeVars, callbackVars, routeVars>>

\* Every token at every time.
InitAgree ==
  /\ now \in Times
  /\ localStorage = NoToken
  /\ cookie = NoToken
  /\ TabInit
  /\ NoProbe
  /\ NoStep
  /\ NoStore
  /\ NoCross
  /\ NoForm
  /\ NoRace
  /\ NoRoute
  /\ NoCallback
  /\ NoCascade
  /\ NoHop
  /\ NoRetention
  /\ NoWire
  /\ NoProfile
  /\ NoSession
  /\ \E token \in AllTokens : verdicts = Verdicts(token, "none", "none")

NextAgree == ApplyBoth

SpecAgree == InitAgree /\ [][NextAgree]_vars

\* ------------------------------------------------- the headers of a request

\* The urls requested through apiClient, which authApiClient is another name of.
AuthUrls == {"/auth/login", "/auth/logout", "/auth/me", "/auth/google/callback"}

OtherUrls == {"/testing", "/health"}

\* config.url?.includes('/auth/').
includesAuth(url) == url \in AuthUrls

\* The request interceptor apiClient is created with: for a url outside
\* /auth/, the Authorization header is the token of localStorage, if any.
apiRequestInterceptor(s, url, authorization) ==
  IF s.ls # NoToken /\ ~includesAuth(url) THEN s.ls ELSE authorization

\* The request interceptors of the client, the one added last running first.
requestHeaders(s, url, nowMs) ==
  apiRequestInterceptor(s, url, requestInterceptor(s, nowMs))

\* A request to url leaves the client.
SendThrough ==
  \E url \in AuthUrls \cup OtherUrls :
    /\ wire.url = "none"
    /\ wire' = Wire(url, requestHeaders(Cur, url, now))
    /\ UNCHANGED <<now, tabVars, probeVars, stepVars, storeVars, crossVars,
                   formVars, raceVars, profileVars, sessionVars, agreeVars, retentionVars, hopVars, cascadeVars, callbackVars, routeVars>>

\* Any content of the token store at any time.
InitWire ==
  /\ now \in Times
  /\ localStorage \in {NoToken} \cup AllTokens
  /\ cookie \in {NoToken, localStorage}
  /\ TabInit
  /\ NoProbe
  /\ NoStep
  /\ NoStore
  /\ NoCross
  /\ NoForm
  /\ NoRace
  /\ NoRoute
  /\ NoCallback
  /\ NoCascade
  /\ NoHop
  /\ NoRetention
  /\ NoProfile
  /\ NoSession
  /\ NoVerdicts
  /\ NoWire

NextWire == SendThrough

SpecWire == InitWire /\ [][NextWire]_vars

\* ------------------------------------------- the token store over the days

\* tokenManager.setToken in a tab of the origin: both mediums, the cookie with
\* expires = now + 7 days.
RetainSetToken ==
  \E token \in StoreTokens :
    /\ localStorage' = setToken(Cur, token).ls
    /\ cookie' = setToken(Cur, token).cookie
    /\ cookieExpires' = day + RetentionDays
    /\ UNCHANGED <<now, data, invalidated, enabled, attached, mounted, fetching,
                   failureCount, inflight, storageEvents, last, probeVars,
                   stepVars, storeVars, crossVars, formVars, raceVars,
                   profileVars, sessionVars, agreeVars, wireVars, day, hopVars, cascadeVars, callbackVars, routeVars>>

\* tokenManager.removeToken in a tab of the origin, called as such or by a
\* logout or the handling of a 401.
RetainRemoveToken ==
  /\ localStorage' = removeToken(Cur).ls
  /\ cookie' = removeToken(Cur).cookie
  /\ UNCHANGED <<now, data, invalidated, enabled, attached, mounted, fetching,
                 failureCount, inflight, storageEvents, last, probeVars,
                 stepVars, storeVars, crossVars, formVars, raceVars,
                 profileVars, sessionVars, agreeVars, wireVars, retentionVars, hopVars, cascadeVars, callbackVars, routeVars>>

\* A day passes: the browser drops a cookie whose expires has been reached;
\* localStorage keeps its items.
DayPasses ==
  /\ day < MaxDays
  /\ day' = day + 1
  /\ cookie' = IF cookie # NoToken /\ day + 1 >= cookieExpires THEN NoToken ELSE cookie
  /\ UNCHANGED <<now, localStorage, data, invalidated, enabled, attached, mounted,
                 fetching, failureCount, inflight, storageEvents, last, probeVars,
                 stepVars, storeVars, crossVars, formVars, raceVars,
                 profileVars, sessionVars, agreeVars, wireVars, cookieExpires, hopVars, cascadeVars, callbackVars, routeVars>>

\* The token store before its first use.
InitRetention ==
  /\ now = 0
  /\ localStorage = NoToken
  /\ cookie = NoToken
  /\ TabInit
  /\ NoProbe
  /\ NoStep
  /\ NoStore
  /\ NoCross
  /\ NoForm
  /\ NoRace
  /\ NoRoute
  /\ NoCallback
  /\ NoCascade
  /\ NoHop
  /\ NoProfile
  /\ NoSession
  /\ NoVerdicts
  /\ NoWire
  /\ NoRetention

NextRetention ==
  \/ RetainSetToken
  \/ RetainRemoveToken
  \/ DayPasses

SpecRetention == InitRetention /\ [][NextRetention]_vars

\* ------------------------------------------------- following a redirect

\* The browser follows a redirect of the guard: it requests the target, whose
\* query string has no `code`, with the same cookie and header, and the guard
\* answers that request.
FollowRedirect ==
  /\ pResp.kind = "redirect"
  /\ hop = NoHopState
  /\ LET req == Request(pResp.to, FALSE, pReq.cookie, pReq.header)
     IN  hop' = [req |-> req, resp |-> middleware(req, now)]
  /\ UNCHANGED <<now, tabVars, probeVars, stepVars, storeVars, crossVars,
                 formVars, raceVars, profileVars, sessionVars, agreeVars,
                 wireVars, retentionVars, cascadeVars, callbackVars, routeVars>>

NextHops ==
  \/ ApplyMiddleware
  \/ FollowRedirect

\* Every request at every time, as for the guard on its own.
SpecHops == InitGuard /\ [][NextHops]_vars

\* ------------------------------------------------- logout across the tabs

removeItemNotifiesAlways(ls) == TRUE

\* localStorage.removeItem("auth_token"): the other tabs are notified when the
\* key held a value.
removeItemNotifies(ls) == ls # NoToken

\* tokenManager.removeToken in tab t: the tabs as it leaves them.
tabRemoveToken(ts, t, ls) ==
  [o \in Tabs |->
     IF o # t /\ ts[o].listening /\ removeItemNotifies(ls)
     THEN [ts[o] EXCEPT !.events = Append(@, StorageEvent("auth_token", NoToken))]
     ELSE ts[o]]

\* The user logs out in tab t: logoutMutation.mutateAsync() sends the request.
UserLogout(t) ==
  /\ ~clicked
  /\ clicked' = TRUE
  /\ tabs' = [tabs EXCEPT ![t].logouts = @ + 1]
  /\ UNCHANGED <<now, tabVars, probeVars, stepVars, storeVars, crossVars,
                 formVars, raceVars, profileVars, sessionVars, agreeVars,
                 wireVars, retentionVars, hopVars, callbackVars, routeVars>>

\* The browser calls the storage listener of tab t, which calls auth.logout()
\* for the removal of auth_token.
StorageListener(t) ==
  /\ tabs[t].events # <<>>
  /\ tabs[t].ran < MaxRuns
  /\ LET e == Head(tabs[t].events)
         s1 == handleStorageChange(Cur, e, now)
     IN  tabs' = [tabs EXCEPT ![t].events = Tail(@),
                              ![t].logouts = IF s1.sent = "logout" THEN @ + 1 ELSE @,
                              ![t].ran = IF s1.sent = "logout" THEN @ + 1 ELSE @]
  /\ UNCHANGED <<now, tabVars, probeVars, stepVars, storeVars, crossVars,
                 formVars, raceVars, profileVars, sessionVars, agreeVars,
                 wireVars, retentionVars, hopVars, clicked, callbackVars, routeVars>>

\* A logout of tab t settles, on a response or on the client's timeout:
\* removeToken, by the 401 handling, the finally of authApi.logout and the
\* handler of the mutation, and the cache of the tab cleared.
TabLogoutSettles(t) ==
  /\ tabs[t].logouts > 0
  /\ localStorage' = removeToken(Cur).ls
  /\ cookie' = removeToken(Cur).cookie
  /\ tabs' = [tabRemoveToken(tabs, t, localStorage) EXCEPT
                ![t].logouts = @ - 1, ![t].user = FALSE]
  /\ UNCHANGED <<now, data, invalidated, enabled, attached, mounted, fetching,
                 failureCount, inflight, storageEvents, last, probeVars,
                 stepVars, storeVars, crossVars, formVars, raceVars, profileVars,
                 sessionVars, agreeVars, wireVars, retentionVars, hopVars, clicked, callbackVars, routeVars>>

\* The tabs of a signed-in user: the token in both mediums, each tab with its
\* AuthProvider mounted or not and its user cached or not.
InitCascade ==
  /\ now = 0
  /\ localStorage \in StoreTokens
  /\ cookie = localStorage
  /\ TabInit
  /\ NoProbe
  /\ NoStep
  /\ NoStore
  /\ NoCross
  /\ NoForm
  /\ NoRace
  /\ NoRoute
  /\ NoCallback
  /\ NoProfile
  /\ NoSession
  /\ NoVerdicts
  /\ NoWire
  /\ NoRetention
  /\ NoHop
  /\ tabs \in [Tabs -> {TabState(l, u) : l \in BOOLEAN, u \in BOOLEAN}]
  /\ clicked = FALSE

NextCascade ==
  \E t \in Tabs :
    \/ UserLogout(t)
    \/ StorageListener(t)
    \/ TabLogoutSettles(t)

SpecCascade == InitCascade /\ [][NextCascade]_vars

\* Storage events are delivered, and a request settles within the client's
\* timeout.
SpecCascadeFair ==
  /\ SpecCascade
  /\ \A t \in Tabs : WF_vars(StorageListener(t)) /\ WF_vars(TabLogoutSettles(t))

\* ------------------------------------------------- the OAuth callback page

handleCallbackThrowsNoCodeOnly(cb) == ~cb.code

\* handleCallback before the exchange: it throws for an `error` parameter and
\* for a missing code.
handleCallbackThrows(cb) == cb.error \/ ~cb.code

\* The effect of AuthCallbackPage, which runs after the first render and again
\* whenever googleAuth is a new function: handleCallback up to its await, or to
\* its catch.
HandleCallback ==
  /\ mounted
  /\ callback.shown
  /\ callback.started < MaxExchanges
  /\ IF handleCallbackThrows(callback)
     THEN /\ Commit(Cur, Did("callback", "none", Cur, "none"))
          /\ callback' = [callback EXCEPT !.status = "error"]
     ELSE /\ HasRoom
          /\ LET s1 == mutateAsync(Cur, "google", now)
             IN  Commit(s1, Did("callback", "none", s1, "none"))
          /\ callback' = [callback EXCEPT !.started = @ + 1]
  /\ UNCHANGED <<now, storageEvents, probeVars, stepVars, storeVars, crossVars,
                 formVars, raceVars, profileVars, sessionVars, agreeVars,
                 wireVars, retentionVars, hopVars, cascadeVars, routeVars>>

\* The exchange succeeds: onSuccess of googleAuthMutation, setStatus('success')
\* and the timer of the redirect.
CallbackSucceeds ==
  \E u \in Users, ttl \in 1..MaxTtl :
    /\ BagIn(GoogleReq, inflight)
    /\ (now \div MsPerSec) + ttl <= MaxExp
    /\ LET s1 == onSuccess(receive(Cur, GoogleReq), issueToken(u, now, ttl), u, now)
       IN  Commit(s1, Did("callback-response", "ok", s1, clientError("ok")))
    /\ callback' = [callback EXCEPT !.status = "success", !.timer = TRUE]
    /\ UNCHANGED <<now, storageEvents, probeVars, stepVars, storeVars, crossVars,
                   formVars, raceVars, profileVars, sessionVars, agreeVars,
                   wireVars, retentionVars, hopVars, cascadeVars, routeVars>>

\* The exchange fails: the response interceptor, onError, and the catch of
\* handleCallback.
CallbackFails ==
  \E outcome \in Outcomes \ {"ok"} :
    /\ BagIn(GoogleReq, inflight)
    /\ LET s1 == responseInterceptor(receive(Cur, GoogleReq), outcome)
           s2 == IF clientError(outcome) # "none" THEN onError(s1) ELSE s1
       IN  Commit(s2, Did("callback-response", outcome, s2, clientError(outcome)))
    /\ callback' = [callback EXCEPT !.status = "error"]
    /\ UNCHANGED <<now, storageEvents, probeVars, stepVars, storeVars, crossVars,
                   formVars, raceVars, profileVars, sessionVars, agreeVars,
                   wireVars, retentionVars, hopVars, cascadeVars, routeVars>>

\* The timer set on success fires: router.push('/dashboard').
CallbackTimerFires ==
  /\ callback.timer
  /\ callback' = [callback EXCEPT !.timer = FALSE]
  /\ nav' = routerNavigate(Cur, Path("/dashboard", ""), FALSE, now)
  /\ UNCHANGED <<now, tabVars, probeVars, stepVars, storeVars, crossVars,
                 formVars, raceVars, profile, sessionVars, agreeVars,
                 wireVars, retentionVars, hopVars, cascadeVars, routeVars>>

\* handleRetry, the button of the error state: router.push('/auth/signin').
HandleRetry ==
  /\ callback.shown
  /\ callback.status = "error"
  /\ nav' = routerNavigate(Cur, Path("/auth/signin", ""), FALSE, now)
  /\ UNCHANGED <<now, tabVars, probeVars, stepVars, storeVars, crossVars,
                 formVars, raceVars, profile, sessionVars, agreeVars,
                 wireVars, retentionVars, hopVars, cascadeVars, callbackVars, routeVars>>

\* The identity provider has sent the browser to /auth/callback, with or
\* without a code, with or without an error.
InitCallback ==
  /\ now = 0
  /\ localStorage \in {NoToken} \cup {issueToken(u, 0, ttl) : u \in Users, ttl \in 1..MaxTtl}
  /\ cookie = localStorage
  /\ TabInit
  /\ NoProbe
  /\ NoStep
  /\ NoStore
  /\ NoCross
  /\ NoForm
  /\ NoRace
  /\ NoRoute
  /\ NoProfile
  /\ NoSession
  /\ NoVerdicts
  /\ NoWire
  /\ NoRetention
  /\ NoHop
  /\ NoCascade
  /\ \E c \in BOOLEAN, e \in BOOLEAN : callback = CallbackPage(TRUE, c, e)

NextCallback ==
  \/ Render
  \/ HandleCallback
  \/ CallbackSucceeds
  \/ CallbackFails
  \/ CallbackTimerFires
  \/ HandleRetry
  \/ MeResponds
  \/ AbandonedMeResponds
  \/ RetryFetch
  \/ Tick

SpecCallback == InitCallback /\ [][NextCallback]_vars

\* ----------------------------------------------------------- ProtectedRoute

\* isLoading of the user query: it is fetching and has no data yet.
isUserLoading(s) == s.fetching # "idle" /\ s.data = NoData

\* isLoading of useAuth.
isLoading(s, p) == isUserLoading(s) \/ \E op \in MutationOps : p[op]

\* isAuthenticated of useAuth: !!user && !!tokenManager.getToken().
isAuthenticated(s) == isIdentity(s.data) /\ getToken(s) # NoToken

ProtectedRouteNoLoading(s, p) ==
  [shown |-> IF ~isAuthenticated(s) THEN "fallback" ELSE "children",
   redirect |-> IF ~isLoading(s, p) /\ ~isAuthenticated(s)
                THEN "/auth/signin" ELSE "none"]

\* ProtectedRoute: what it returns, and what its effect assigns to
\* window.location.href.
ProtectedRoute(s, p) ==
  [shown |-> IF isLoading(s, p) THEN "fallback"
             ELSE IF ~isAuthenticated(s) THEN "fallback"
             ELSE "children",
   redirect |-> IF ~isLoading(s, p) /\ ~isAuthenticated(s)
                THEN "/auth/signin" ELSE "none"]

\* A render pass of a protected page: AuthProvider renders useAuth, then
\* ProtectedRoute renders from the context and its effect runs. After the
\* effect has assigned location.href the document is being left.
RouteRender ==
  /\ route.redirect = "none"
  /\ HasRoom \/ render(Cur, now).inflight = inflight
  /\ LET s1 == render(Cur, now)
     IN  /\ Commit(s1, Did("route", "none", s1, "none"))
         /\ route' = ProtectedRoute(s1, isPending)
  /\ UNCHANGED <<now, storageEvents, isPending, probeVars, stepVars, storeVars,
                 crossVars, formVars, raceVars, profileVars, sessionVars,
                 agreeVars, wireVars, retentionVars, hopVars, cascadeVars,
                 callbackVars>>

\* A mutation of useAuth is called: its observer follows the new call.
RouteMutate ==
  \E op \in MutationOps :
    /\ mounted
    /\ route.redirect = "none"
    /\ HasRoom
    /\ LET s1 == mutateAsync(Cur, op, now)
       IN  Commit(s1, Did(op, "none", s1, "none"))
    /\ isPending' = [isPending EXCEPT ![op] = TRUE]
    /\ UNCHANGED <<now, storageEvents, route, probeVars, stepVars, storeVars,
                   crossVars, formVars, raceVars, profileVars, sessionVars,
                   agreeVars, wireVars, retentionVars, hopVars, cascadeVars,
                   callbackVars>>

\* Whether a response for op can be that of the observer's current call
\* (current), or that of an earlier call the observer no longer follows.
CanSettle(op, current) ==
  IF current THEN isPending[op]
  ELSE CopiesIn(Req(op, "none", TRUE), inflight) > (IF isPending[op] THEN 1 ELSE 0)

settle(op, current) ==
  [isPending EXCEPT ![op] = IF current THEN FALSE ELSE @]

RouteAuthSucceeds ==
  \E op \in AuthOps, u \in Users, ttl \in 1..MaxTtl, current \in BOOLEAN :
    /\ BagIn(Req(op, "none", TRUE), inflight)
    /\ CanSettle(op, current)
    /\ (now \div MsPerSec) + ttl <= MaxExp
    /\ LET s1 == onSuccess(receive(Cur, Req(op, "none", TRUE)),
                           issueToken(u, now, ttl), u, now)
       IN  Commit(s1, Did(op, "ok", s1, clientError("ok")))
    /\ isPending' = settle(op, current)
    /\ UNCHANGED <<now, storageEvents, route, probeVars, stepVars, storeVars,
                   crossVars, formVars, raceVars, profileVars, sessionVars,
                   agreeVars, wireVars, retentionVars, hopVars, cascadeVars,
                   callbackVars>>

RouteAuthFails ==
  \E op \in AuthOps, outcome \in Outcomes \ {"ok"}, current \in BOOLEAN :
    /\ BagIn(Req(op, "none", TRUE), inflight)
    /\ CanSettle(op, current)
    /\ LET s1 == responseInterceptor(receive(Cur, Req(op, "none", TRUE)), outcome)
           s2 == IF clientError(outcome) # "none" THEN onError(s1) ELSE s1
       IN  Commit(s2, Did(op, outcome, s2, clientError(outcome)))
    /\ isPending' = settle(op, current)
    /\ UNCHANGED <<now, storageEvents, route, probeVars, stepVars, storeVars,
                   crossVars, formVars, raceVars, profileVars, sessionVars,
                   agreeVars, wireVars, retentionVars, hopVars, cascadeVars,
                   callbackVars>>

RouteLogoutSettles ==
  \E outcome \in Outcomes, current \in BOOLEAN :
    /\ BagIn(Req("logout", "none", TRUE), inflight)
    /\ CanSettle("logout", current)
    /\ LET s1 == responseInterceptor(receive(Cur, Req("logout", "none", TRUE)), outcome)
           s2 == removeToken(s1)
           s3 == logoutOnSuccess(s2)
       IN  Commit(s3, Did("logout", outcome, s3, clientError(outcome)))
    /\ isPending' = settle("logout", current)
    /\ UNCHANGED <<now, storageEvents, route, probeVars, stepVars, storeVars,
                   crossVars, formVars, raceVars, profileVars, sessionVars,
                   agreeVars, wireVars, retentionVars, hopVars, cascadeVars,
                   callbackVars>>

NextRoute ==
  \/ RouteRender
  \/ RouteMutate
  \/ RouteAuthSucceeds
  \/ RouteAuthFails
  \/ RouteLogoutSettles
  \/ RefreshUser
  \/ MeResponds
  \/ AbandonedMeResponds
  \/ RetryFetch
  \/ CheckTokenValidity
  \/ Tick

SpecRoute == Init /\ [][NextRoute]_vars

\* ------------------------------------------------------------------ claims

\* A token of valid structure with a positive expiry claim.
WellFormed(token) ==
  /\ token.segments >= 2
  /\ token.base64
  /\ token.json = "object"
  /\ token.exp # NoExp
  /\ token.exp >= 1

\* C1 (as claimed): for a structurally valid token, isTokenExpired returns true
\* exactly when the expiry claim is less than or equal to the current time,
\* the instant of expiry included.
C1_ExpiredIffExpiryNotAfterNow ==
  (pExpired # "none" /\ WellFormed(pToken))
    => (pExpired = "true" <=> pToken.exp * MsPerSec <= now)

\* The middle segment is missing or cannot be decoded.
Undecodable(token) ==
  token.segments < 2 \/ ~token.base64 \/ token.json = "invalid"

\* C2: for a token whose claims segment is missing, is not base64 or is not
\* JSON, isTokenExpired returns true: not false, and no exception.
C2_UndecodableIsExpired ==
  (pExpired # "none" /\ Undecodable(pToken)) => pExpired = "true"

C2_Witness ==
  pExpired = "true" /\ pToken.segments = 3 /\ pToken.base64 /\ pToken.json = "invalid"

\* /dashboard, /profile and their sub-paths.
ProtectedPath(p) == p.base \in {"/dashboard", "/profile"} /\ p.rest \in {"", "/sub"}

\* /auth/signin, /auth/signup and their sub-paths.
AuthEntryPath(p) == p.base \in {"/auth/signin", "/auth/signup"} /\ p.rest \in {"", "/sub"}

\* The credential a request carries: the cookie, or else the bearer header.
Credential(req) == IF req.cookie # NoToken THEN req.cookie ELSE req.header

\* A decodable credential whose expiry is later than the current time.
ValidCredential(token, nowMs) ==
  /\ token.segments >= 2
  /\ token.base64
  /\ token.json = "object"
  /\ token.exp # NoExp
  /\ token.exp * MsPerSec > nowMs

SignIn(p) == Redirect(Path("/auth/signin", ""), p)

\* C5 (as claimed): every request to a protected path without a credential is
\* redirected to sign-in with callbackUrl the original path, and every one
\* with a valid credential is passed through.
C5_NoCredentialAlwaysRedirected ==
  (pResp # NoResponse /\ ProtectedPath(pReq.path))
    => /\ Credential(pReq) = NoToken => pResp = SignIn(pReq.path)
       /\ ValidCredential(Credential(pReq), now) => pResp = PassThrough

\* C5 (amended): a request to a protected path without a credential and
\* without a `code` query parameter is redirected to sign-in with callbackUrl
\* the original path; one with a valid credential is passed through.
C5_NoCredentialNoCodeRedirected ==
  (pResp # NoResponse /\ ProtectedPath(pReq.path))
    => /\ (Credential(pReq) = NoToken /\ ~pReq.code) => pResp = SignIn(pReq.path)
       /\ ValidCredential(Credential(pReq), now) => pResp = PassThrough

C5_Witness ==
  /\ ProtectedPath(pReq.path)
  /\ pReq.path.rest = "/sub"
  /\ Credential(pReq) = NoToken
  /\ ~pReq.code
  /\ pResp = SignIn(pReq.path)

\* C6: a request to an auth-entry path with a valid credential is redirected
\* to /dashboard, and a request to /auth/callback is passed through whatever
\* its credential and query string.
C6_AuthEntryRedirectsCallbackPasses ==
  pResp # NoResponse
    => /\ (AuthEntryPath(pReq.path) /\ ValidCredential(Credential(pReq), now))
            => pResp = Redirect(Path("/dashboard", ""), NoPath)
       /\ (pReq.path.base = "/auth/callback" /\ pReq.path.rest \in {"", "/sub"})
            => pResp = PassThrough

C6_Witness ==
  /\ AuthEntryPath(pReq.path)
  /\ ValidCredential(Credential(pReq), now)
  /\ pReq.code
  /\ pResp = Redirect(Path("/dashboard", ""), NoPath)

\* The token store is empty in both mediums.
StoreEmpty == localStorage = NoToken /\ cookie = NoToken

\* A response has just been handled for operation op.
Handled(op) == last.act = op /\ last.outcome \in Outcomes

\* C3 (as claimed): in every reachable state the cache entry holds an identity
\* only if the token store holds a credential that is not expired.
C3_IdentityOnlyWithLiveCredential ==
  isIdentity(data) => checkIsAuthenticated(Cur, now)

\* C3 (amended): whenever checkTokenValidity has just run, the cache entry
\* holds an identity only if the token store holds a credential that is not
\* expired.
C3_IdentityOnlyWithLiveCredentialAfterCheck ==
  last.act = "check" => (isIdentity(data) => checkIsAuthenticated(Cur, now))

C3_Witness ==
  /\ last.act = "check"
  /\ data = Null
  /\ localStorage # NoToken
  /\ localStorage.exp * MsPerSec < now

\* C4: when a logout mutation has finished, whatever the response of
\* /auth/logout, the token store is empty in both mediums and the cache entry
\* holds no identity.
C4_LogoutClearsStoreAndCache ==
  Handled("logout") => (StoreEmpty /\ ~isIdentity(data))

C4_Witness ==
  Handled("logout") /\ last.outcome = "error" /\ StoreEmpty /\ ~isIdentity(data)

\* C7 (as claimed): after a login has succeeded the cache entry holds the
\* identity of the response, and the login causes no request to /auth/me: its
\* handler sends none and leaves the entry fresh.
C7_LoginSeedsWithoutRequest ==
  (last.act = "login" /\ last.outcome = "ok")
    => /\ data = Identity(localStorage.id, "server")
       /\ last.sent = "none"
       /\ ~invalidated

\* C7 (amended): after a login has succeeded the cache entry holds the identity
\* of the response at once, and the handler marks the entry invalidated, so
\* that /auth/me is requested: by the handler itself when an enabled observer
\* holds the entry.
C7_LoginSeedsAndInvalidates ==
  (last.act = "login" /\ last.outcome = "ok")
    => /\ data = Identity(localStorage.id, "server")
       /\ invalidated
       /\ (enabled /\ attached)
            => /\ last.sent = "me"
               /\ BagIn(Req("me", localStorage.id, TRUE), inflight)

C7_Witness ==
  /\ last.act = "login"
  /\ last.outcome = "ok"
  /\ data = Identity(localStorage.id, "server")
  /\ last.sent = "me"

\* The stored credential has valid structure and its expiry is in the past.
StoredExpired ==
  /\ getToken(Cur) # NoToken
  /\ WellFormed(getToken(Cur))
  /\ getToken(Cur).exp * MsPerSec < now

C9_RemovedOnLogout401AndExpiry ==
  /\ Handled("logout") => StoreEmpty
  /\ last.outcome = "unauthorized" => StoreEmpty
  /\ (last.act \in {"check", "refetch", "retry", "login", "register", "google",
                    "logout", "storage"}
        /\ last.outcome = "none")
       => ~StoredExpired

\* C9 (amended): the token store is empty after a logout and after a 401
\* response; a credential the client finds expired stays in the store.
C9_RemovedOnLogoutAnd401 ==
  /\ Handled("logout") => StoreEmpty
  /\ last.outcome = "unauthorized" => StoreEmpty

C9_Witness ==
  last.act = "me" /\ last.outcome = "unauthorized" /\ StoreEmpty

\* C10: when a request has received a 401 response, the token store is empty
\* in both mediums, auth:logout has been dispatched, the cache entry has been
\* set to null and the cache cleared, and the caller has been rejected with the
\* 401 error.
C10_UnauthorizedClearsAndRejects ==
  last.outcome = "unauthorized"
    => /\ StoreEmpty
       /\ last.dispatched
       /\ data = NoData
       /\ ~attached
       /\ last.error = "unauthorized"

C10_Witness ==
  /\ last.act = "login"
  /\ last.outcome = "unauthorized"
  /\ last.dispatched
  /\ last.error = "unauthorized"
  /\ StoreEmpty

\* C11: when a login, register or OAuth-exchange mutation succeeds, its
\* handler stores the credential before it seeds the cache: in no state, the
\* states between two statements of the handler included, does the cache hold
\* the identity the handler seeded while the handler has not yet stored the
\* credential of the same response; and, unless another tab has removed the
\* token since, the cache then holds the identity of the response and the
\* token store its credential, in both mediums.
C11_CredentialStoredBeforeIdentitySeeded ==
  handler.seeded
    => /\ handler.stored
       /\ storageEvents = 0
            => /\ data = Identity(handler.id, "server")
               /\ localStorage = handler.token
               /\ cookie = handler.token

C11_Witness ==
  /\ handler.hook = "useAuth"
  /\ handler.pc = 3
  /\ handler.seeded
  /\ data = Identity(handler.id, "server")
  /\ localStorage = handler.token
  /\ ~invalidated

C13_TokenStoreRoundTrip ==
  /\ call.op = "setToken"
       => /\ getToken(Cur) = call.arg
          /\ localStorage = call.arg
          /\ cookie = call.arg
  /\ call.op = "removeToken"
       => /\ getToken(Cur) = NoToken
          /\ StoreEmpty
  /\ call.op = "getToken"
       => call.result = IF localStorage # NoToken THEN localStorage ELSE cookie

\* The token store holds no credential, or one whose expiry is in the past.
NoLiveCredential == getToken(Cur) = NoToken \/ StoredExpired

\* C14 (as claimed): while the token store holds no credential or only an
\* expired one, the session query yields no identity and no request to
\* /auth/me is issued.
C14_NoLiveCredentialYieldsNull ==
  NoLiveCredential => (~isIdentity(data) /\ last.sent # "me")

\* C14 (amended): while the token store holds no credential or only an expired
\* one, no request to /auth/me is issued, a run of the query function gives
\* null, a render leaves the query disabled, and the entry holds no identity
\* once checkTokenValidity has run; an identity cached earlier stays until then.
C14_NoLiveCredentialNoRequest ==
  NoLiveCredential
    => /\ last.sent # "me"
       /\ (last.act \in {"refetch", "retry"} /\ fetching = "idle") => data = Null
       /\ last.act = "render" => ~enabled
       /\ last.act = "check" => ~isIdentity(data)

\* The retry of a failed fetch finds the token gone and gives null.
C14_Witness ==
  /\ last.act = "retry"
  /\ StoreEmpty
  /\ data = Null
  /\ last.sent = "none"

\* The token store holds a credential whose expiry is later than now.
LiveCredential ==
  /\ getToken(Cur) # NoToken
  /\ WellFormed(getToken(Cur))
  /\ getToken(Cur).exp * MsPerSec > now

\* C15: when the request of the session fetch has failed, the query function
\* returns the minimal identity built from the claims of the stored credential
\* if a non-expired one is stored at that moment, and the cache then holds
\* that identity; it throws the failure if none is stored or the stored one
\* has expired, which is the case after every 401.
C15_FetchFailureFallsBackToToken ==
  (last.act = "me" /\ last.outcome \in {"unauthorized", "error"})
    => /\ last.result \in {"token-identity", "throws"}
       /\ LiveCredential
            => /\ last.result = "token-identity"
               /\ data = Identity(getToken(Cur).id, "token")
       /\ NoLiveCredential => last.result = "throws"
       /\ last.outcome = "unauthorized"
            => (StoreEmpty /\ last.result = "throws")

C15_Witness ==
  /\ last.act = "me"
  /\ last.outcome = "error"
  /\ last.result = "token-identity"
  /\ data = Identity(localStorage.id, "token")

\* C16: the session fetch is never retried after a 401, and after other
\* failures at most twice: a fetch has at most three failed attempts, a retry
\* is pending only after the first or the second, the request in flight is at
\* most the third, and the third failure ends the fetch.
C16_RetriesBounded ==
  /\ failureCount <= 3
  /\ fetching = "retry" => failureCount \in 1..2
  /\ fetching = "fetching" => failureCount <= 2
  /\ failureCount = 3 => fetching = "idle"
  /\ (last.act = "me" /\ last.outcome = "unauthorized") => fetching # "retry"

\* The third attempt of a fetch has failed, and the fetch has ended.
C16_Witness ==
  /\ last.act = "me"
  /\ last.outcome = "error"
  /\ last.result = "throws"
  /\ failureCount = 3
  /\ fetching = "idle"

\* C17: the storage listener of a mounted AuthProvider runs logout exactly for
\* the events that report the removal of auth_token, those with key auth_token
\* and newValue null, and for no event of another key or with a new value; and
\* when that logout has finished the cache of the tab holds no identity and
\* its token store is empty.
C17_RemovalElsewhereLogsOut ==
  /\ last.act = "storage"
       => (last.sent = "logout"
             <=> (delivered.key = "auth_token" /\ delivered.newValue = NoToken))
  /\ Handled("logout") => (~isIdentity(data) /\ StoreEmpty)

\* The logout run for a removal in another tab has finished.
C17_Witness ==
  /\ delivered = StorageEvent("auth_token", NoToken)
  /\ Handled("logout")
  /\ data = NoData
  /\ events = <<>>

\* C18: a request to a protected path is redirected to sign-in if and only if
\* its credential (the cookie, or else the bearer header) is not valid and its
\* query string has no `code` parameter; with a `code` parameter it is passed
\* through also without a valid credential, and no protected-path request
\* gets any other response.
C18_RedirectIffNoCredentialAndNoCode ==
  (pResp # NoResponse /\ ProtectedPath(pReq.path))
    => /\ pResp = SignIn(pReq.path)
            <=> (~ValidCredential(Credential(pReq), now) /\ ~pReq.code)
       /\ (~ValidCredential(Credential(pReq), now) /\ pReq.code)
            => pResp = PassThrough
       /\ pResp \in {SignIn(pReq.path), PassThrough}

\* A request to /profile/sub with a `code` parameter and an expired cookie is
\* passed through.
C18_Witness ==
  /\ pReq.path = Path("/profile", "/sub")
  /\ pReq.code
  /\ pReq.cookie # NoToken
  /\ WellFormed(pReq.cookie)
  /\ pReq.cookie.exp * MsPerSec < now
  /\ pResp = PassThrough

\* C19: a submitted form invokes its mutation, which sends the request, exactly
\* when its fields pass validation, and sends nothing otherwise. Login: an
\* email that is not empty and matches the email pattern, a password of at
\* least 6 characters. Register: a name of at least 2 characters, such an
\* email, a password of at least 8 characters with a lowercase letter, an
\* uppercase letter and a digit, and a confirmation equal to the password.
C19_MutationOnlyWhenFormValid ==
  last.act = "submit" =>
    LET f == formData
        validEmail == f.email # <<>> /\ emailPattern(f.email)
        valid ==
          IF f.form = "login"
          THEN validEmail /\ f.password.len >= 6
          ELSE /\ f.name >= 2
               /\ validEmail
               /\ f.password.len >= 8
               /\ f.password.lower /\ f.password.upper /\ f.password.digit
               /\ f.confirmPassword = "same"
    IN  IF valid
        THEN last.sent = f.form /\ inflight = SetToBag({Req(f.form, "none", TRUE)})
        ELSE last.sent = "none" /\ inflight = EmptyBag /\ formErrors # {}

\* A register form that passed validation and sent its request.
C19_Witness ==
  /\ last.act = "submit"
  /\ formData.form = "register"
  /\ formErrors = {}
  /\ last.sent = "register"

\* C20: calls of login are not coalesced. Each call sends a request of its own,
\* also while another login is in flight; each response takes one request out
\* of flight and runs its own handler, and after it the token store and the
\* cache entry are what that handler leaves, whatever an earlier one left: the
\* token and the identity of the response after a success, an empty store in
\* both mediums after a failure, with the cache entry emptied by a 401 and
\* untouched by any other failure.
C20_ConcurrentLoginsIndependent ==
  [][/\ invoked' = invoked + 1 =>
          /\ CopiesIn(LoginReq, inflight') = CopiesIn(LoginReq, inflight) + 1
          /\ last'.sent = "login"
     /\ Len(arrived') = Len(arrived) + 1 =>
          LET a == arrived'[Len(arrived')]
          IN  /\ CopiesIn(LoginReq, inflight') = CopiesIn(LoginReq, inflight) - 1
              /\ a.others = CopiesIn(LoginReq, inflight')
              /\ last'.act = "login" /\ last'.outcome = a.outcome
              /\ IF a.outcome = "ok"
                 THEN /\ localStorage' = a.token
                      /\ cookie' = a.token
                      /\ data' = Identity(a.token.id, "server")
                 ELSE /\ localStorage' = NoToken
                      /\ cookie' = NoToken
                      /\ data' = IF a.outcome = "unauthorized" THEN NoData ELSE data]_vars

\* Two logins were in flight at once; the first response was a success, the
\* second, just handled, a failure: the store is empty and the cache entry
\* still holds the identity the first handler seeded.
C20_Witness ==
  /\ invoked = 2
  /\ Len(arrived) = 2
  /\ arrived[1].outcome = "ok" /\ arrived[1].others = 1
  /\ arrived[2].outcome = "error"
  /\ last.act = "login" /\ last.outcome = "error"
  /\ localStorage = NoToken /\ cookie = NoToken
  /\ data = Identity(arrived[1].token.id, "server")

\* C21: after a failed code exchange started by UserProfile, the token store is
\* empty in both mediums and the router has been sent to
\* /auth/signin?error=oauth_callback_failed, a request the route guard passes
\* through.
C21_FailedExchangeClearsAndGoesToSignIn ==
  (last.act = "exchange" /\ last.outcome # "ok") =>
    /\ localStorage = NoToken
    /\ cookie = NoToken
    /\ nav.to = Path("/auth/signin", "") /\ nav.error
    /\ nav.resp = PassThrough

\* An exchange started by UserProfile has just failed.
C21_Witness ==
  /\ last.act = "exchange" /\ last.outcome = "error"
  /\ profile.settled = 1
  /\ nav.pending
  /\ nav.resp = PassThrough

\* C28: for one arrival on the dashboard with a code, UserProfile starts at
\* most one exchange: none is started after the first one has succeeded or
\* failed.
C28_ExchangeAtMostOnce == profile.started <= 1

\* C22: from the completion of a logout until a login sent after it succeeds,
\* the token store is empty in both mediums and the cache entry holds no
\* identity, whatever responses arrive for requests sent before the logout.
C22_LoggedOutUntilNewLogin ==
  sinceLogout.done =>
    /\ localStorage = NoToken
    /\ cookie = NoToken
    /\ ~isIdentity(data)

\* C23: for every token at every instant, the guard's isValidToken is true
\* exactly when the token store's isTokenExpired is false.
C23_GuardAgreesWithTokenStore ==
  verdicts.expired # "none" =>
    (verdicts.valid = "true" <=> verdicts.expired = "false")

\* A token that cannot be decoded, or whose expiry is in the past.
ExpiredAt(token, nowMs) ==
  IF payloadExp(token) = "throws" THEN TRUE
  ELSE payloadExp(token) = "number" /\ token.exp * MsPerSec < nowMs

\* C24: a request that carries an Authorization header carries a credential
\* that is not expired when the request is sent, whatever its url.
C24_BearerNeverExpired ==
  (wire.url # "none" /\ wire.authorization # NoToken) =>
    ~ExpiredAt(wire.authorization, now)

\* C25: after any sequence of setToken and removeToken, whatever time has
\* passed, localStorage and the cookie hold the same credential or are both
\* empty.
C25_MediumsAgree == localStorage = cookie

\* C26: the target of a redirect issued by the guard, requested with the same
\* credential at the same time, is passed through: redirects do not chain.
C26_RedirectsNeverChain ==
  hop.resp # NoResponse =>
    /\ hop.req.path = pResp.to
    /\ hop.resp = PassThrough

\* The redirect of an authenticated request for a sign-in page has been
\* followed to /dashboard.
C26_Witness ==
  /\ pReq.path.base = "/auth/signin"
  /\ pResp = Redirect(Path("/dashboard", ""), NoPath)
  /\ hop.resp = PassThrough

\* No logout is in flight and no storage event awaits delivery, in any tab.
CascadeQuiet == \A t \in Tabs : tabs[t].logouts = 0 /\ tabs[t].events = <<>>

\* C27: after the removal of the token by a logout in one tab, the storage
\* listener of each tab starts at most one logout, a removeToken on the empty
\* store notifies no tab, and the tabs come to rest with no logout in flight.
C27_CascadeTerminates ==
  /\ [](\A t \in Tabs : tabs[t].ran <= 1)
  /\ [][localStorage = NoToken =>
          \A t \in Tabs : Len(tabs'[t].events) <= Len(tabs[t].events)]_vars
  /\ <>[]CascadeQuiet

\* The logout of one tab has made a sibling log out, and the tabs are at rest.
C27_Witness ==
  /\ clicked
  /\ \E t \in Tabs : tabs[t].ran = 1 /\ ~tabs[t].user
  /\ localStorage = NoToken
  /\ CascadeQuiet

\* C29: the callback page starts the exchange only for a URL with a code and
\* no error; its status becomes success only when an exchange has succeeded,
\* and only then is the redirect to /dashboard scheduled and made; its status
\* becomes error when the URL has an error or no code, or when an exchange has
\* failed; and once success or error, it is never loading again.
C29_CallbackPageStatus ==
  [][/\ CopiesIn(GoogleReq, inflight') > CopiesIn(GoogleReq, inflight) =>
          /\ callback.code /\ ~callback.error
          /\ callback'.started = callback.started + 1
     /\ (callback'.status = "success" /\ callback.status # "success") =>
          (last'.act = "callback-response" /\ last'.outcome = "ok")
     /\ (callback'.timer /\ ~callback.timer) =>
          (last'.act = "callback-response" /\ last'.outcome = "ok")
     /\ (nav' # nav /\ nav'.to = Path("/dashboard", "")) => callback.timer
     /\ (callback'.status = "error" /\ callback.status # "error") =>
          \/ callback.error
          \/ ~callback.code
          \/ (last'.act = "callback-response" /\ last'.outcome # "ok")
     /\ (last' # last /\ last'.act = "callback" /\ (callback.error \/ ~callback.code)) =>
          callback'.status = "error"
     /\ (last' # last /\ last'.act = "callback-response") =>
          callback'.status = IF last'.outcome = "ok" THEN "success" ELSE "error"
     /\ callback.status # "loading" => callback'.status # "loading"]_vars

\* The exchange succeeded and the page has gone on to the dashboard.
C29_Witness ==
  /\ callback.status = "success"
  /\ callback.started = 1
  /\ ~callback.timer
  /\ nav.to = Path("/dashboard", "")

\* C30 (as claimed): when ProtectedRoute has just rendered, it shows its
\* children only if no auth operation is loading, the cache holds an identity
\* and the token store holds a credential that is not expired.
C30_ChildrenOnlyWithLiveCredential ==
  (last.act = "route" /\ route.shown = "children") =>
    /\ ~isLoading(Cur, isPending)
    /\ isIdentity(data)
    /\ getToken(Cur) # NoToken
    /\ ~isTokenExpired(getToken(Cur), now)

\* C30 (amended): when ProtectedRoute has just rendered, it shows its children
\* exactly if no auth operation is loading, the cache holds an identity and the
\* token store holds a credential, expired or not; otherwise it shows the
\* fallback; and it redirects to the sign-in path exactly if nothing is
\* loading and the cache holds no identity or the store no credential.
C30_ChildrenOnlyWithIdentityAndCredential ==
  last.act = "route" =>
    /\ route.shown = "children" <=>
         /\ ~isLoading(Cur, isPending)
         /\ isIdentity(data)
         /\ getToken(Cur) # NoToken
    /\ route.shown # "children" => route.shown = "fallback"
    /\ route.redirect = "/auth/signin" <=>
         /\ ~isLoading(Cur, isPending)
         /\ ~(isIdentity(data) /\ getToken(Cur) # NoToken)
    /\ route.redirect # "/auth/signin" => route.redirect = "none"

\* ProtectedRoute has rendered its children for a session that the server
\* confirmed and whose credential has since expired.
C30_Witness ==
  /\ last.act = "route"
  /\ route.shown = "children"
  /\ data.source = "server"
  /\ isTokenExpired(getToken(Cur), now)

====
